---- MODULE Spec2Model ----
(***************************************************************************)
(* The authoritative world room of gliderBattle (the Colyseus server):     *)
(* join / leave, the pose and crash messages, the simulation tick (orb     *)
(* lifecycle, holder follow, pickup, steal, scoring) and the thermal       *)
(* reseed timer.                                                           *)
(*                                                                         *)
(* Numbers.  Lengths are integers in tenths of a world unit (2.8 is 28),   *)
(* angles in thousandths of a radian, times in milliseconds.  A JavaScript *)
(* value that a client sends is a tagged record (see Js... below).         *)
(* Date.now() is the variable clock, the last value read: time passes      *)
(* between handlers (ClockSteps, seen by a handler's first read) and       *)
(* between two reads inside a join that begins a countdown (ReadSkews).    *)
(***************************************************************************)
EXTENDS Integers, Sequences, FiniteSets, TLC

VARIABLES
    room,   \* the WorldRoom: state (WorldState), scoreAccumulatorMs, orbCountdownEndsAtMs
    clock,  \* the last value Date.now() returned
    hold,   \* history: the current holder's run of ticks (deltaTime sum, points)
    used,   \* history: the session ids the transport has handed out so far
    call    \* a call of createRng's generator or of buildThermals that is followed step
            \* by step (NoCall in the specifications of the room)

vars == <<room, clock, hold, used, call>>

-----------------------------------------------------------------------------
(* Program constants (lengths in tenths).                                  *)

MAX_CLIENTS == 32
THERMAL_COUNT == 10
THERMAL_RESEED_SECONDS == 18
THERMAL_SMALL_RATIO == <<45875, 13107>>   \* 0.7: a value v / 2^32 is below it iff v <= 0xb3333333
THERMAL_SMALL_RADIUS_MIN == 50
THERMAL_SMALL_RADIUS_MAX == 80
THERMAL_LARGE_RADIUS_MIN == 120
THERMAL_LARGE_RADIUS_MAX == 200
THERMAL_BASE_HEIGHT_MIN == 320
THERMAL_BASE_HEIGHT_MAX == 540
THERMAL_HEIGHT_AMPLITUDE_MIN == 80
THERMAL_HEIGHT_AMPLITUDE_MAX == 160
THERMAL_SMALL_STRENGTH_MIN == 38
THERMAL_SMALL_STRENGTH_MAX == 52
THERMAL_LARGE_STRENGTH_MIN == 25
THERMAL_LARGE_STRENGTH_MAX == 38
THERMAL_MIN_GAP == 140
THERMAL_EDGE_MARGIN == 0
THERMAL_MAX_CENTER_RADIUS == 920
THERMAL_CANDIDATES_PER_SLOT == 64
THERMAL_FALLBACK_ATTEMPTS_PER_SLOT == 120
THERMAL_ACTIVATION_DELAY_MIN_SECONDS == 0      \* in milliseconds
THERMAL_ACTIVATION_DELAY_MAX_SECONDS == 6000   \* in milliseconds
SPAWN_RING_RADIUS == 860
SPAWN_Y == 180
ORB_PICKUP_HORIZONTAL_RADIUS == 28
ORB_PICKUP_VERTICAL_TOLERANCE == 45
ORB_STEAL_HORIZONTAL_RADIUS == 24
ORB_STEAL_VERTICAL_TOLERANCE == 35
ORB_STEAL_COOLDOWN_MS == 1000
ORB_SCORE_INTERVAL_MS == 1000
ORB_SPAWN_ALTITUDE_MIN == 240
ORB_SPAWN_ALTITUDE_MAX == 340
ORB_SPAWN_RADIUS == 720
ORB_MIN_PLAYERS == 2
ORB_START_COUNTDOWN_MS == 10000
INITIAL_WORLD_SEED == 5000
RESEED_STEP == 131
HOLDER_OFFSET_Y == 9
NICKNAME_MAX == 24

\* null of orbCountdownEndsAtMs (a number or null in the code)
Null == -1

-----------------------------------------------------------------------------
(* Bounds of the model.                                                    *)

StartMs == 5000          \* Date.now() when the room is created
MaxClockMs == 25000      \* the clock is not advanced beyond this
MaxScore == 1            \* no tick takes a score beyond this
MaxSpawnSeq == 2         \* no crash of the holder from this spawnSeq on
MaxRunScore == 4         \* the score bound where a hold run is followed
MaxHoldMs == 4000        \* the history of a hold run saturates here
MaxReseedClockMs == 45000 \* the clock bound where two reseeds are followed
MaxRngCalls == 12        \* the calls of a generator that are followed
MaxReseeds == 1          \* the seeds of buildThermals: those of the first reseeds

\* the advance of the clock from one handler to the first read of the next
ClockSteps == {0, 10000}
\* the advance of the clock between two reads of Date.now() inside a join
ReadSkews == {0, 1}

Max(a, b) == IF a >= b THEN a ELSE b
Min(a, b) == IF a <= b THEN a ELSE b

-----------------------------------------------------------------------------
(* JavaScript values of message payloads and join options.                 *)

JsUndefined == [t |-> "undefined"]
JsNull == [t |-> "null"]
JsNaN == [t |-> "nan"]
JsNum(n) == [t |-> "number", v |-> n]
JsStr(s) == [t |-> "string", v |-> s]
JsBool(b) == [t |-> "boolean", v |-> b]
JsObj(f) == [t |-> "object", f |-> f]

\* typeof v === "object" (null included, as in JavaScript)
TypeofObject(v) == v.t \in {"object", "null"}

\* Boolean(v)
ToBoolean(v) ==
    CASE v.t = "undefined" -> FALSE
      [] v.t = "null" -> FALSE
      [] v.t = "nan" -> FALSE
      [] v.t = "number" -> v.v # 0
      [] v.t = "string" -> Len(v.v) > 0
      [] v.t = "boolean" -> v.v
      [] OTHER -> TRUE

\* Number.isFinite(v): a number that is neither NaN nor an infinity
NumberIsFinite(v) == v.t = "number"

\* o.name (o?.name for undefined and null): undefined when the field is absent
Field(o, name) ==
    IF o.t = "object" /\ name \in DOMAIN o.f THEN o.f[name] ELSE JsUndefined

\* String.prototype.trim and slice(0, n) on a string held as a sequence of characters
RECURSIVE TrimStart(_)
TrimStart(s) == IF s # <<>> /\ Head(s) = " " THEN TrimStart(Tail(s)) ELSE s
RECURSIVE TrimEnd(_)
TrimEnd(s) ==
    IF s # <<>> /\ s[Len(s)] = " " THEN TrimEnd(SubSeq(s, 1, Len(s) - 1)) ELSE s
Trim(s) == TrimEnd(TrimStart(s))
Slice0(s, n) == SubSeq(s, 1, Min(n, Len(s)))

-----------------------------------------------------------------------------
(* MapSchema: a map that keeps insertion order, a sequence of entries.     *)

MapKeys(m) == {m[i].key : i \in DOMAIN m}
MapHas(m, k) == k \in MapKeys(m)
MapGet(m, k) == m[CHOOSE i \in DOMAIN m : m[i].key = k].value
MapSet(m, k, v) ==
    IF MapHas(m, k)
    THEN [i \in DOMAIN m |-> IF m[i].key = k THEN [key |-> k, value |-> v] ELSE m[i]]
    ELSE Append(m, [key |-> k, value |-> v])
MapDelete(m, k) == SelectSeq(m, LAMBDA e : e.key # k)
MapSize(m) == Len(m)

-----------------------------------------------------------------------------
(* createRng.  A 32-bit integer is a word <<hi, lo>> of two 16-bit halves; *)
(* the closure variable t, a double that holds an integer, is a triple     *)
(* <<top, hi, lo>> for top * 2^32 + hi * 2^16 + lo.                         *)

Half == 65536
RNG_INCREMENT == <<0, 27947, 31221>>     \* 0x6d2b79f5
DoubleExactTop == 2097152                \* 2^53 / 2^32: below, every integer is a double

\* the exclusive or of two 4-bit numbers, bit by bit
Xor4 ==
    [a \in 0..15, b \in 0..15 |->
        ((a + b) % 2) + 2 * (((a \div 2) + (b \div 2)) % 2)
           + 4 * (((a \div 4) + (b \div 4)) % 2) + 8 * (((a \div 8) + (b \div 8)) % 2)]

\* The operations on halves and words are functions: an argument is a value when the
\* operation uses it.
Xor16 ==
    [a \in Nat, b \in Nat |->
        Xor4[a % 16, b % 16] + 16 * Xor4[(a \div 16) % 16, (b \div 16) % 16]
           + 256 * Xor4[(a \div 256) % 16, (b \div 256) % 16]
           + 4096 * Xor4[a \div 4096, b \div 4096]]

Or16 == [a \in Nat, b \in Nat |-> (a + b + Xor16[a, b]) \div 2]

\* v ^ w, v | k for a small k, v >>> n for 0 < n < 16, and v + w reduced to 32 bits
XorWord == [v \in Nat \X Nat, w \in Nat \X Nat |-> <<Xor16[v[1], w[1]], Xor16[v[2], w[2]]>>]
OrLow == [v \in Nat \X Nat, k \in Nat |-> <<v[1], Or16[v[2], k]>>]
ShiftRight ==
    [v \in Nat \X Nat, n \in 1..15 |->
        <<v[1] \div (2^n), (v[1] % (2^n)) * (2^(16 - n)) + (v[2] \div (2^n))>>]
AddWord ==
    [v \in Nat \X Nat, w \in Nat \X Nat |->
        <<(v[1] + w[1] + ((v[2] + w[2]) \div Half)) % Half, (v[2] + w[2]) % Half>>]

\* the product of two 16-bit numbers as a word (through the bytes of a: no overflow)
Mul16 ==
    [a \in Nat, b \in Nat |->
        LET p0 == (a % 256) * b
            p1 == (a \div 256) * b
            low == p0 + 256 * (p1 % 256)
        IN <<(low \div Half) + (p1 \div 256), low % Half>>]

\* Math.imul: the low 32 bits of the product
imul ==
    [v \in Nat \X Nat, w \in Nat \X Nat |->
        <<(Mul16[v[2], w[2]][1] + Mul16[v[1], w[2]][2] + Mul16[v[2], w[1]][2]) % Half,
          Mul16[v[2], w[2]][2]>>]

\* ToInt32 / ToUint32 of the closure variable: its value modulo 2^32
ToWord(t) == <<t[2], t[3]>>

\* seed >>> 0
ToUint32(seed) == <<0, seed[2], seed[3]>>

\* the exact sum of two non-negative integers
AddExact(t, u) ==
    LET lo == t[3] + u[3]
        hi == t[2] + u[2] + (lo \div Half)
    IN <<t[1] + u[1] + (hi \div Half), hi % Half, lo % Half>>

\* the sum as the double addition returns it: exact below 2^53; from 2^53 to 2^54 the
\* doubles are the even integers, and an odd sum goes to the neighbour that is a
\* multiple of 4 (round to nearest, ties to even)
RoundDouble ==
    [sum \in Nat \X Nat \X Nat |->
        IF sum[1] < DoubleExactTop \/ sum[3] % 2 = 0 THEN sum
        ELSE IF sum[3] % 4 = 3 THEN AddExact(sum, <<0, 0, 1>>)
             ELSE <<sum[1], sum[2], sum[3] - 1>>]

AddDouble ==
    [t \in Nat \X Nat \X Nat, u \in Nat \X Nat \X Nat |-> RoundDouble[AddExact(t, u)]]

\* createRng(seed): the generator, its closure variable t
createRng(seed) == [t |-> ToUint32(seed)]

\* The mixing of one call on the 32 bits of t, statement by statement.  Each statement
\* is a function, so that its argument is a value when the next one uses it.
Word == (0..(Half - 1)) \X (0..(Half - 1))

\* let x = Math.imul[t ^ (t >>> 15), 1 | t]
MixMultiply == [t \in Word |-> imul[XorWord[t, ShiftRight[t, 15]], OrLow[t, 1]]]

\* x ^= x + Math.imul[x ^ (x >>> 7), 61 | x]
MixAdd ==
    [x \in Word |->
        XorWord[x, AddWord[x, imul[XorWord[x, ShiftRight[x, 7]], OrLow[x, 61]]]]]

\* (x ^ (x >>> 14)) >>> 0, the numerator of the value returned (over 2^32)
MixShift == [x \in Word |-> XorWord[x, ShiftRight[x, 14]]]

Mix(t) == MixShift[MixAdd[MixMultiply[t]]]

\* the generator and the value returned of a call that leaves the closure variable at t
Returned == [t \in Nat \X Nat \X Nat |-> [g |-> [t |-> t], value |-> Mix(ToWord(t))]]

\* one call of the generator: the generator afterwards and the value returned
rng(g) == Returned[AddDouble[g.t, RNG_INCREMENT]]

\* n times 0x6d2b79f5, byte by byte of the increment (n below 2^23: no overflow)
TimesIncrement(n) ==
    LET p0 == n * (RNG_INCREMENT[3] % 256)
        p1 == n * (RNG_INCREMENT[3] \div 256) + (p0 \div 256)
        p2 == n * (RNG_INCREMENT[2] % 256) + (p1 \div 256)
        p3 == n * (RNG_INCREMENT[2] \div 256) + (p2 \div 256)
    IN <<p3 \div 256, (p3 % 256) * 256 + (p2 % 256), (p1 % 256) * 256 + (p0 % 256)>>

\* the generator g after n more calls, all of them below 2^53 (every sum exact)
Advanced(g, n) == [t |-> AddExact(g.t, TimesIncrement(n))]

-----------------------------------------------------------------------------
(* The arithmetic of buildThermals.  A value of the generator is the word  *)
(* v of its numerator (the value is v / 2^32); its upper half is the       *)
(* fraction used where the value scales a range.  Math.cos and Math.sin    *)
(* are read from a table of 64 directions, in thousandths.                 *)

TwoPi == 6283           \* Math.PI * 2 in thousandths of a radian

\* range * value, the value a word
Scale(range, v) == (range * v[1]) \div Half

\* value < ratio, both words
Below(v, ratio) == v[1] < ratio[1] \/ (v[1] = ratio[1] /\ v[2] <= ratio[2])

\* Math.sqrt on integers: the largest r with r * r <= n, found bit by bit from bit down
SqrtFrom[n \in Nat, r \in Nat, bit \in Nat] ==
    IF bit = 0 THEN r
    ELSE IF (r + bit) * (r + bit) <= n THEN SqrtFrom[n, r + bit, bit \div 2]
         ELSE SqrtFrom[n, r, bit \div 2]

Sqrt(n) == SqrtFrom[n, 0, 2048]

\* Math.sqrt(value) * length: the root of the upper half is in 256ths
SqrtScale(v, length) == (Sqrt(v[1]) * length) \div 256

\* Math.hypot
Hypot(dx, dz) == Sqrt(dx * dx + dz * dz)

CosTable ==
    <<
      1000, 995, 981, 957, 924, 882, 831, 773, 707, 634, 556, 471, 383, 290, 195, 98,
      0, -98, -195, -290, -383, -471, -556, -634, -707, -773, -831, -882, -924, -957, -981, -995,
      -1000, -995, -981, -957, -924, -882, -831, -773, -707, -634, -556, -471, -383, -290, -195, -98,
      0, 98, 195, 290, 383, 471, 556, 634, 707, 773, 831, 882, 924, 957, 981, 995
    >>

\* the direction of an angle, 0 .. 63
Direction(angle) == (angle * 64) \div (TwoPi + 1)

Cos(angle) == CosTable[Direction(angle) + 1]
Sin(angle) == CosTable[((Direction(angle) + 48) % 64) + 1]

\* randomInRange(min, max) with the value v that rng() returned
randomInRange(min, max, v) == min + Scale(max - min, v)

-----------------------------------------------------------------------------
(* The schema classes.                                                     *)

NetPlayer(t) ==
    [nickname |-> <<>>, x |-> 0, y |-> SPAWN_Y, z |-> 0, yaw |-> 0, bank |-> 0,
     speedbar |-> FALSE, currentOrbScore |-> 0, bestOrbScore |-> 0, updatedAtMs |-> t]

NetOrb ==
    [x |-> 0, y |-> ORB_SPAWN_ALTITUDE_MIN, z |-> 0, holderSessionId |-> "",
     lastTransferAtMs |-> 0, spawnSeq |-> 0]

\* buildThermals(seed): the thermals of a batch, here their ids thermal-<seed>-<index>
buildThermals(seed, t) ==
    [i \in 1..THERMAL_COUNT |-> [id |-> <<"thermal", seed, i - 1>>]]

\* NetThermal's constructor; t is its read of Date.now() (activationAt in milliseconds)
NetThermal(t) ==
    [id |-> <<>>, sizeClass |-> "small", activationAt |-> t, groundY |-> 0, x |-> 0,
     z |-> 0, radius |-> 60, baseHeight |-> 300, heightAmplitude |-> 100,
     strength |-> 100, phase |-> 0]

WorldState(t) ==
    [players |-> <<>>, thermals |-> <<>>, orb |-> NetOrb, orbActive |-> FALSE,
     orbCountdownRemainingMs |-> 0, worldSeed |-> INITIAL_WORLD_SEED, serverTimeMs |-> t]

\* canTag: Math.hypot(dx, dz) <= horizontalRadius as dx^2 + dz^2 <= horizontalRadius^2
Abs(a) == IF a < 0 THEN -a ELSE a
canTag(ax, ay, az, bx, by, bz, horizontalRadius, verticalTolerance) ==
    LET dx == ax - bx
        dz == az - bz
    IN /\ dx * dx + dz * dz <= horizontalRadius * horizontalRadius
       /\ Abs(ay - by) <= verticalTolerance

\* Math.random() of respawnOrb: a point of the spawn disc at a spawn altitude
OrbSpawns == {[x |-> 0, y |-> 240, z |-> 0]}

\* faulty variant: the respawn does not count in spawnSeq
respawnOrbUncounted(state, rnd, t) ==
    [state EXCEPT !.orb = [x |-> rnd.x, y |-> rnd.y, z |-> rnd.z, holderSessionId |-> "",
                           lastTransferAtMs |-> t, spawnSeq |-> state.orb.spawnSeq]]

\* respawnOrb(state); rnd is the point drawn, t the value of Date.now()
respawnOrb(state, rnd, t) ==
    [state EXCEPT !.orb = [x |-> rnd.x, y |-> rnd.y, z |-> rnd.z, holderSessionId |-> "",
                           lastTransferAtMs |-> t, spawnSeq |-> state.orb.spawnSeq + 1]]

-----------------------------------------------------------------------------
(* WorldRoom: the orb lifecycle.                                           *)

beginOrbCountdown(r, t) ==
    [r EXCEPT !.orbCountdownEndsAtMs = t + ORB_START_COUNTDOWN_MS,
              !.state.orbActive = FALSE]

\* faulty variant: deactivation also resets every player's current score
clearOrbStateZeroesScores(r) ==
    [r EXCEPT !.orbCountdownEndsAtMs = Null,
              !.state.orbActive = FALSE,
              !.state.orbCountdownRemainingMs = 0,
              !.state.orb.holderSessionId = "",
              !.state.players = [i \in DOMAIN @ |-> [@[i] EXCEPT !.value.currentOrbScore = 0]]]

\* faulty variant: the deadline of the countdown is not cleared
clearOrbStateKeepsDeadline(r) ==
    [r EXCEPT !.state.orbActive = FALSE,
              !.state.orbCountdownRemainingMs = 0,
              !.state.orb.holderSessionId = ""]

\* faulty variant: the holder is not cleared
clearOrbStateKeepsHolder(r) ==
    [r EXCEPT !.orbCountdownEndsAtMs = Null,
              !.state.orbActive = FALSE,
              !.state.orbCountdownRemainingMs = 0]

clearOrbState(r) ==
    [r EXCEPT !.orbCountdownEndsAtMs = Null,
              !.state.orbActive = FALSE,
              !.state.orbCountdownRemainingMs = 0,
              !.state.orb.holderSessionId = ""]

canOrbRun(r) == MapSize(r.state.players) >= ORB_MIN_PLAYERS

\* faulty variant: the remaining time is measured from the start of the countdown
RemainingEarly(r, now) == Max(0, r.orbCountdownEndsAtMs - ORB_START_COUNTDOWN_MS - now)

\* faulty variant: the remaining time never reaches 0
RemainingNeverZero(r, now) == Max(1, r.orbCountdownEndsAtMs - now)

\* remaining of updateOrbLifecycle, once the countdown has a deadline
Remaining(r, now) == Max(0, r.orbCountdownEndsAtMs - now)

\* faulty variant: every evaluation of an inactive orb begins the countdown anew
updateOrbLifecycleRestarts(r, now, t, rnd) ==
    IF ~canOrbRun(r) THEN clearOrbState(r)
    ELSE IF r.state.orbActive THEN [r EXCEPT !.state.orbCountdownRemainingMs = 0]
    ELSE LET due == r.orbCountdownEndsAtMs # Null /\ Remaining(r, now) = 0
             r1 == IF due THEN r ELSE beginOrbCountdown(r, t)
             remaining == Remaining(r1, now)
             r2 == [r1 EXCEPT !.state.orbCountdownRemainingMs = remaining]
         IN IF remaining = 0
            THEN [r2 EXCEPT !.orbCountdownEndsAtMs = Null,
                            !.state = respawnOrb([r2.state EXCEPT !.orbActive = TRUE], rnd, t)]
            ELSE r2

\* updateOrbLifecycle(now); t is the value of the Date.now() it reads (in
\* beginOrbCountdown or in respawnOrb: never both), rnd the respawn point
updateOrbLifecycle(r, now, t, rnd) ==
    IF ~canOrbRun(r) THEN clearOrbState(r)
    ELSE IF r.state.orbActive THEN [r EXCEPT !.state.orbCountdownRemainingMs = 0]
    ELSE LET r1 == IF r.orbCountdownEndsAtMs = Null THEN beginOrbCountdown(r, t) ELSE r
             remaining == Remaining(r1, now)
             r2 == [r1 EXCEPT !.state.orbCountdownRemainingMs = remaining]
         IN IF remaining = 0
            THEN [r2 EXCEPT !.orbCountdownEndsAtMs = Null,
                            !.state = respawnOrb([r2.state EXCEPT !.orbActive = TRUE], rnd, t)]
            ELSE r2

-----------------------------------------------------------------------------
(* The message handlers.                                                   *)

\* faulty variant: a field that is not a finite number is set to 0
onPoseDefaultsZero(r, sessionId, pose, t) ==
    IF ~MapHas(r.state.players, sessionId) \/ ~ToBoolean(pose) \/ ~TypeofObject(pose)
    THEN r
    ELSE LET player == MapGet(r.state.players, sessionId)
             num(name) ==
                 IF NumberIsFinite(Field(pose, name)) THEN Field(pose, name).v ELSE 0
             moved == [player EXCEPT !.x = num("x"), !.y = num("y"), !.z = num("z"),
                                     !.yaw = num("yaw"), !.bank = num("bank"),
                                     !.speedbar = ToBoolean(Field(pose, "speedbar")),
                                     !.updatedAtMs = t]
         IN [r EXCEPT !.state.players = MapSet(r.state.players, sessionId, moved)]

\* faulty variant: a sender without a Player gets one
onPoseUpsert(r, sessionId, pose, t) ==
    IF ~ToBoolean(pose) \/ ~TypeofObject(pose)
    THEN r
    ELSE LET player == IF MapHas(r.state.players, sessionId)
                       THEN MapGet(r.state.players, sessionId)
                       ELSE NetPlayer(t)
             num(name, old) ==
                 IF NumberIsFinite(Field(pose, name)) THEN Field(pose, name).v ELSE old
             moved == [player EXCEPT !.x = num("x", player.x),
                                     !.y = num("y", player.y),
                                     !.z = num("z", player.z),
                                     !.yaw = num("yaw", player.yaw),
                                     !.bank = num("bank", player.bank),
                                     !.speedbar = ToBoolean(Field(pose, "speedbar")),
                                     !.updatedAtMs = t]
         IN [r EXCEPT !.state.players = MapSet(r.state.players, sessionId, moved)]

\* onMessage("pose"): t is the value of Date.now()
onPose(r, sessionId, pose, t) ==
    IF ~MapHas(r.state.players, sessionId) \/ ~ToBoolean(pose) \/ ~TypeofObject(pose)
    THEN r
    ELSE LET player == MapGet(r.state.players, sessionId)
             num(name, old) ==
                 IF NumberIsFinite(Field(pose, name)) THEN Field(pose, name).v ELSE old
             moved == [player EXCEPT !.x = num("x", player.x),
                                     !.y = num("y", player.y),
                                     !.z = num("z", player.z),
                                     !.yaw = num("yaw", player.yaw),
                                     !.bank = num("bank", player.bank),
                                     !.speedbar = ToBoolean(Field(pose, "speedbar")),
                                     !.updatedAtMs = t]
         IN [r EXCEPT !.state.players = MapSet(r.state.players, sessionId, moved)]

\* faulty variant: the crash respawns the orb and leaves the holder's current score
onCrashKeepsScore(r, sessionId, rnd, t) ==
    IF r.state.orbActive /\ r.state.orb.holderSessionId = sessionId
    THEN [r EXCEPT !.state = respawnOrb(r.state, rnd, t)]
    ELSE r

\* faulty variant: the crash of any player frees a held orb
onCrashAnySender(r, sessionId, rnd, t) ==
    IF r.state.orbActive /\ r.state.orb.holderSessionId # ""
    THEN LET ps == r.state.players
             zeroed == IF MapHas(ps, sessionId)
                       THEN MapSet(ps, sessionId,
                                   [MapGet(ps, sessionId) EXCEPT !.currentOrbScore = 0])
                       ELSE ps
         IN [r EXCEPT !.state = respawnOrb([r.state EXCEPT !.players = zeroed], rnd, t)]
    ELSE r

\* faulty variant: the crash of the holder also resets the score accumulator
onCrashResetsAccumulator(r, sessionId, rnd, t) ==
    IF r.state.orbActive /\ r.state.orb.holderSessionId = sessionId
    THEN LET ps == r.state.players
             zeroed == IF MapHas(ps, sessionId)
                       THEN MapSet(ps, sessionId,
                                   [MapGet(ps, sessionId) EXCEPT !.currentOrbScore = 0])
                       ELSE ps
         IN [r EXCEPT !.state = respawnOrb([r.state EXCEPT !.players = zeroed], rnd, t),
                      !.scoreAccumulatorMs = 0]
    ELSE r

\* onMessage("crash")
onCrash(r, sessionId, rnd, t) ==
    IF r.state.orbActive /\ r.state.orb.holderSessionId = sessionId
    THEN LET ps == r.state.players
             zeroed == IF MapHas(ps, sessionId)
                       THEN MapSet(ps, sessionId,
                                   [MapGet(ps, sessionId) EXCEPT !.currentOrbScore = 0])
                       ELSE ps
         IN [r EXCEPT !.state = respawnOrb([r.state EXCEPT !.players = zeroed], rnd, t)]
    ELSE r

-----------------------------------------------------------------------------
(* The simulation tick.                                                    *)

\* faulty variant: a held orb stays where it was taken
holderFollowStays(state, rnd, t) ==
    IF state.orb.holderSessionId = "" THEN state
    ELSE IF ~MapHas(state.players, state.orb.holderSessionId)
         THEN respawnOrb(state, rnd, t)
         ELSE state

\* holder follow: the orb is slaved to its holder, or respawned when the holder is gone
holderFollow(state, rnd, t) ==
    IF state.orb.holderSessionId = "" THEN state
    ELSE IF ~MapHas(state.players, state.orb.holderSessionId)
         THEN respawnOrb(state, rnd, t)
         ELSE LET holder == MapGet(state.players, state.orb.holderSessionId)
              IN [state EXCEPT !.orb.x = holder.x,
                               !.orb.y = holder.y + HOLDER_OFFSET_Y,
                               !.orb.z = holder.z]

\* the orb given to the player of entry i (the body shared by pickup and steal)
giveOrb(state, i, now) ==
    LET e == state.players[i]
    IN [state EXCEPT !.players[i].value.currentOrbScore = 0,
                     !.orb.holderSessionId = e.key,
                     !.orb.lastTransferAtMs = now,
                     !.orb.x = e.value.x,
                     !.orb.y = e.value.y + HOLDER_OFFSET_Y,
                     !.orb.z = e.value.z]

\* faulty variant: the last entry in insertion order wins
LastOf(entries) == CHOOSE i \in entries : \A j \in entries : i >= j

\* the first entry of the players mapping, in insertion order, among a set of entries
FirstOf(entries) == CHOOSE i \in entries : \A j \in entries : i <= j

\* pickup: the first player within pickup range of the unheld orb becomes holder
pickup(state, now) ==
    LET orb == state.orb
        inRange == {i \in DOMAIN state.players :
                       LET player == state.players[i].value
                       IN canTag(player.x, player.y, player.z, orb.x, orb.y, orb.z,
                                 ORB_PICKUP_HORIZONTAL_RADIUS, ORB_PICKUP_VERTICAL_TOLERANCE)}
    IN IF inRange = {} THEN state ELSE giveOrb(state, FirstOf(inRange), now)

\* steal: the first other player within steal range of the holder takes the orb
steal(state, now, rnd, t) ==
    IF ~MapHas(state.players, state.orb.holderSessionId)
    THEN respawnOrb(state, rnd, t)
    ELSE LET holderId == state.orb.holderSessionId
             holder == MapGet(state.players, holderId)
             inRange == {i \in DOMAIN state.players :
                            LET player == state.players[i].value
                            IN /\ state.players[i].key # holderId
                               /\ canTag(player.x, player.y, player.z,
                                         holder.x, holder.y, holder.z,
                                         ORB_STEAL_HORIZONTAL_RADIUS,
                                         ORB_STEAL_VERTICAL_TOLERANCE)}
             zeroed == [state EXCEPT !.players =
                           MapSet(state.players, holderId, [holder EXCEPT !.currentOrbScore = 0])]
         IN IF inRange = {} THEN state ELSE giveOrb(zeroed, FirstOf(inRange), now)

\* faulty variant: a steal does not wait for the cooldown
pickupOrStealNoCooldown(state, now, rnd, t) ==
    IF state.orb.holderSessionId = "" THEN pickup(state, now)
    ELSE steal(state, now, rnd, t)

\* pickup when the orb is unheld, else steal once the cooldown has elapsed
pickupOrSteal(state, now, rnd, t) ==
    IF state.orb.holderSessionId = "" THEN pickup(state, now)
    ELSE IF now - state.orb.lastTransferAtMs >= ORB_STEAL_COOLDOWN_MS
         THEN steal(state, now, rnd, t)
         ELSE state

\* faulty variant: the best score is overwritten by the current score
scorePointNoMax(state) ==
    IF state.orb.holderSessionId # "" /\ MapHas(state.players, state.orb.holderSessionId)
    THEN LET holder == MapGet(state.players, state.orb.holderSessionId)
             current == holder.currentOrbScore + 1
         IN [state EXCEPT !.players =
                MapSet(state.players, state.orb.holderSessionId,
                       [holder EXCEPT !.currentOrbScore = current,
                                      !.bestOrbScore = current])]
    ELSE state

\* faulty variant: a pass through the scoring loop gives 2 points
scorePointDouble(state) ==
    IF state.orb.holderSessionId # "" /\ MapHas(state.players, state.orb.holderSessionId)
    THEN LET holder == MapGet(state.players, state.orb.holderSessionId)
             current == holder.currentOrbScore + 2
         IN [state EXCEPT !.players =
                MapSet(state.players, state.orb.holderSessionId,
                       [holder EXCEPT !.currentOrbScore = current,
                                      !.bestOrbScore = Max(holder.bestOrbScore, current)])]
    ELSE state

\* one point for the holder (one pass through the body of the scoring loop)
scorePoint(state) ==
    IF state.orb.holderSessionId # "" /\ MapHas(state.players, state.orb.holderSessionId)
    THEN LET holder == MapGet(state.players, state.orb.holderSessionId)
             current == holder.currentOrbScore + 1
         IN [state EXCEPT !.players =
                MapSet(state.players, state.orb.holderSessionId,
                       [holder EXCEPT !.currentOrbScore = current,
                                      !.bestOrbScore = Max(holder.bestOrbScore, current)])]
    ELSE state

\* while (scoreAccumulatorMs >= ORB_SCORE_INTERVAL_MS) { ... }
RECURSIVE scoreLoop(_)
scoreLoop(r) ==
    IF r.scoreAccumulatorMs >= ORB_SCORE_INTERVAL_MS
    THEN scoreLoop([r EXCEPT !.state = scorePoint(r.state),
                             !.scoreAccumulatorMs = @ - ORB_SCORE_INTERVAL_MS])
    ELSE r

\* scoring: the room's accumulator takes the tick's deltaTime
scoring(r, deltaTime) ==
    scoreLoop([r EXCEPT !.scoreAccumulatorMs = @ + deltaTime])

\* faulty variant: a tick that finds the orb inactive leaves the accumulator
onTickKeepsAccumulator(r, deltaTime, t1, t2, t3, rnd) ==
    LET now == t1
        r1 == updateOrbLifecycle([r EXCEPT !.state.serverTimeMs = t1], now, t2, rnd)
    IN IF ~r1.state.orbActive
       THEN r1
       ELSE LET followed == holderFollow(r1.state, rnd, t3)
                taken == pickupOrSteal(followed, now, rnd, t3)
            IN scoring([r1 EXCEPT !.state = taken], deltaTime)

\* faulty variant: the points are given before the pickup-or-steal step
onTickScoresFirst(r, deltaTime, t1, t2, t3, rnd) ==
    LET now == t1
        r1 == updateOrbLifecycle([r EXCEPT !.state.serverTimeMs = t1], now, t2, rnd)
    IN IF ~r1.state.orbActive
       THEN [r1 EXCEPT !.scoreAccumulatorMs = 0]
       ELSE LET followed == holderFollow(r1.state, rnd, t3)
                scored == scoring([r1 EXCEPT !.state = followed], deltaTime)
            IN [scored EXCEPT !.state = pickupOrSteal(scored.state, now, rnd, t3)]

\* the element of a set of one element
The(S) == CHOOSE x \in S : TRUE

\* the callback of setSimulationInterval; t1, t2, t3 are its reads of Date.now().  Each
\* const of the callback (the room after the lifecycle step, the state after the
\* holder follow, the state after the pickup or steal) is the element of a set of one.
onTick(r, deltaTime, t1, t2, t3, rnd) ==
    LET now == t1
        active(r1) ==
            {scoring([r1 EXCEPT !.state = taken], deltaTime) :
                taken \in {pickupOrSteal(followed, now, rnd, t3) :
                    followed \in {holderFollow(r1.state, rnd, t3)}}}
        afterLifecycle(r1) ==
            IF ~r1.state.orbActive
            THEN [r1 EXCEPT !.scoreAccumulatorMs = 0]
            ELSE The(active(r1))
    IN The({afterLifecycle(r1) :
               r1 \in {updateOrbLifecycle([r EXCEPT !.state.serverTimeMs = t1],
                                          now, t2, rnd)}})

\* faulty variant: the new thermals are pushed without clearing the old ones
onReseedKeepsOld(r, t) ==
    LET seed == r.state.worldSeed + RESEED_STEP
    IN [r EXCEPT !.state.worldSeed = seed,
                 !.state.thermals = r.state.thermals \o buildThermals(seed, t)]

\* the callback of clock.setInterval: the thermal reseed; t is its read of Date.now()
onReseed(r, t) ==
    LET seed == r.state.worldSeed + RESEED_STEP
    IN [r EXCEPT !.state.worldSeed = seed,
                 !.state.thermals = buildThermals(seed, t)]

-----------------------------------------------------------------------------
(* buildThermals, step by step.  k is the call: its seed, its generator g, *)
(* batchNow (the clock reading at its start), the thermals placed so far,  *)
(* the place in the code (pc), the loop counters i and attempt,            *)
(* bestCandidate (a sequence, empty for null) and, as history, whether a   *)
(* scored candidate of the slot survived the overlap test and the result   *)
(* of an earlier call with the same seed (first).  A generator that is not *)
(* followed (Unfollowed) stands for any other seed: its values are drawn   *)
(* from the inputs of the specification.                                   *)

Unfollowed == [t |-> <<>>]

\* a seed (a small number) as the closure variable holds it
SeedNumber(seed) == <<0, seed \div Half, seed % Half>>

\* one call of the generator: its outcome if the generator is followed, any of the
\* values otherwise
Drawn(g, values) ==
    IF g = Unfollowed THEN {[g |-> g, value |-> v] : v \in values} ELSE {rng(g)}

\* four calls in a row: the generator afterwards and the four values in order
Drawn4(g, draws) ==
    IF g = Unfollowed THEN {[g |-> g, values |-> vs] : vs \in draws}
    ELSE LET r1 == rng(g)
             r2 == rng(r1.g)
             r3 == rng(r2.g)
             r4 == rng(r3.g)
         IN {[g |-> r4.g, values |-> <<r1.value, r2.value, r3.value, r4.value>>]}

maxRadius ==
    Max(Min(THERMAL_MAX_CENTER_RADIUS, THERMAL_MAX_CENTER_RADIUS - THERMAL_EDGE_MARGIN), 100)

\* the candidate of the four values angle, dist, isSmall, radius
Candidate(vs) ==
    LET angle == Scale(TwoPi, vs[1])
        dist == SqrtScale(vs[2], maxRadius)
        isSmall == Below(vs[3], THERMAL_SMALL_RATIO)
    IN [x |-> (Cos(angle) * dist) \div 1000,
        z |-> (Sin(angle) * dist) \div 1000,
        isSmall |-> isSmall,
        radius |-> IF isSmall
                   THEN randomInRange(THERMAL_SMALL_RADIUS_MIN, THERMAL_SMALL_RADIUS_MAX, vs[4])
                   ELSE randomInRange(THERMAL_LARGE_RADIUS_MIN, THERMAL_LARGE_RADIUS_MAX, vs[4]),
        dist |-> dist]

clearance(existing, c) ==
    Hypot(existing.x - c.x, existing.z - c.z) - (existing.radius + c.radius + THERMAL_MIN_GAP)

\* faulty variant: the scored loop accepts every candidate
overlapsExistingNever(thermals, c) == FALSE

\* the overlap test of the scored loop
overlapsExisting(thermals, c) ==
    \E i \in DOMAIN thermals : clearance(thermals[i], c) < 0

\* Math.min over a non-empty set of numbers
Least == [ms \in SUBSET Int |-> CHOOSE m \in ms : \A other \in ms : m <= other]

\* minClearance of a candidate that overlaps nothing (Infinity as the empty sequence)
minClearance(thermals, c) ==
    IF thermals = <<>> THEN <<>>
    ELSE <<Least[{clearance(thermals[i], c) : i \in DOMAIN thermals}]>>

score(thermals, c) ==
    LET edgeBias6 == (c.dist * 60) \div maxRadius
        spreadScore == IF minClearance(thermals, c) # <<>> THEN minClearance(thermals, c)[1]
                       ELSE maxRadius \div 2
    IN spreadScore + edgeBias6

\* one iteration of the scored loop with the candidate c; after the last one the slot
\* goes on to the fallback loop or to the placement
scoredCandidate(k, c) ==
    LET survives == ~overlapsExisting(k.thermals, c)
        better == survives /\ (k.bestCandidate = <<>>
                                 \/ score(k.thermals, c) > k.bestCandidate[1].score)
        best == IF better
                THEN <<[x |-> c.x, z |-> c.z, radius |-> c.radius, isSmall |-> c.isSmall,
                        score |-> score(k.thermals, c)]>>
                ELSE k.bestCandidate
    IN [k EXCEPT !.bestCandidate = best,
                 !.survived = @ \/ survives,
                 !.i = @ + 1,
                 !.pc = IF k.i + 1 < THERMAL_CANDIDATES_PER_SLOT THEN "scored"
                        ELSE IF best = <<>> THEN "fallback" ELSE "place"]

\* where a call goes on when the placement loop has ended
afterPlacement(thermals) ==
    IF Max(THERMAL_ACTIVATION_DELAY_MAX_SECONDS - THERMAL_ACTIVATION_DELAY_MIN_SECONDS, 0) > 0
          /\ Len(thermals) > 0
    THEN "rank" ELSE "done"

\* the overlap test of the fallback loop
overlapsFallback(thermals, c) ==
    \E i \in DOMAIN thermals :
       Hypot(thermals[i].x - c.x, thermals[i].z - c.z)
          < thermals[i].radius + c.radius + THERMAL_MIN_GAP

\* faulty variant: an attempt that overlaps is not counted
fallbackAttemptUncounted(k, c) ==
    IF overlapsFallback(k.thermals, c) THEN k
    ELSE [k EXCEPT !.bestCandidate = <<[x |-> c.x, z |-> c.z, radius |-> c.radius,
                                       isSmall |-> c.isSmall, score |-> 0]>>,
                   !.pc = "place"]

\* one attempt of the fallback loop with the candidate c: placed, or the next attempt,
\* or, after the last one, the end of the generation
fallbackAttempt(k, c) ==
    IF overlapsFallback(k.thermals, c)
    THEN [k EXCEPT !.attempt = @ + 1,
                   !.pc = IF k.attempt + 1 < THERMAL_FALLBACK_ATTEMPTS_PER_SLOT
                          THEN "fallback" ELSE afterPlacement(k.thermals)]
    ELSE [k EXCEPT !.bestCandidate = <<[x |-> c.x, z |-> c.z, radius |-> c.radius,
                                       isSmall |-> c.isSmall, score |-> 0]>>,
                   !.pc = "place"]

\* the thermal of bestCandidate, with the four values strength, baseHeight,
\* heightAmplitude, phase; t is the constructor's read of the clock
placeThermal(k, vs, t) ==
    LET bestCandidate == k.bestCandidate[1]
        strength == IF bestCandidate.isSmall
                    THEN randomInRange(THERMAL_SMALL_STRENGTH_MIN,
                                       THERMAL_SMALL_STRENGTH_MAX, vs[1])
                    ELSE randomInRange(THERMAL_LARGE_STRENGTH_MIN,
                                       THERMAL_LARGE_STRENGTH_MAX, vs[1])
        thermal == [NetThermal(t) EXCEPT
                       !.id = <<"thermal", k.seed, Len(k.thermals)>>,
                       !.sizeClass = IF bestCandidate.isSmall THEN "small" ELSE "large",
                       !.activationAt = k.batchNow,
                       !.groundY = 0,
                       !.x = bestCandidate.x,
                       !.z = bestCandidate.z,
                       !.radius = bestCandidate.radius,
                       !.baseHeight = randomInRange(THERMAL_BASE_HEIGHT_MIN,
                                                    THERMAL_BASE_HEIGHT_MAX, vs[2]),
                       !.heightAmplitude = randomInRange(THERMAL_HEIGHT_AMPLITUDE_MIN,
                                                         THERMAL_HEIGHT_AMPLITUDE_MAX, vs[3]),
                       !.strength = strength,
                       !.phase = Scale(TwoPi, vs[4])]
    IN [k EXCEPT !.thermals = Append(@, thermal),
                 !.bestCandidate = <<>>, !.survived = FALSE, !.i = 0, !.attempt = 0,
                 !.pc = IF Len(k.thermals) + 1 < THERMAL_COUNT THEN "scored"
                        ELSE afterPlacement(Append(k.thermals, thermal))]

\* the callback of thermals.map: the key v of the next thermal
rankKey(k, v) ==
    [k EXCEPT !.keys = Append(@, v),
              !.pc = IF Len(k.keys) + 1 < Len(k.thermals) THEN "rank" ELSE "activate"]

\* ranked, the indices sorted by their keys (the sort is stable: equal keys keep the
\* order of the indices): the index at a rank, counted from 0
ranked(keys, rank) ==
    LET Before(i, j) == \/ keys[i][1] < keys[j][1]
                        \/ keys[i][1] = keys[j][1] /\ keys[i][2] < keys[j][2]
                        \/ keys[i] = keys[j] /\ i < j
    IN CHOOSE index \in DOMAIN keys :
          Cardinality({j \in DOMAIN keys : Before(j, index)}) = rank

\* faulty variant: the jitter is up to 70% of the slot width
activateRankWideJitter(k, v) ==
    LET n == Len(k.thermals)
        slotSize == THERMAL_ACTIVATION_DELAY_MAX_SECONDS \div n
        index == ranked(k.keys, k.rank)
        centerDelay == k.rank * slotSize + (slotSize \div 2)
        jitter == ((v[1] - (Half \div 2)) * slotSize * 7) \div (Half * 5)
        delayed == Min(THERMAL_ACTIVATION_DELAY_MAX_SECONDS, Max(0, centerDelay + jitter))
    IN [k EXCEPT !.thermals[index].activationAt = k.batchNow + delayed,
                 !.rank = @ + 1,
                 !.pc = IF k.rank + 1 < n THEN "activate" ELSE "done"]

\* one iteration of the loop over the ranks, with the jitter value v (times in ms)
activateRank(k, v) ==
    LET n == Len(k.thermals)
        activationRange == Max(THERMAL_ACTIVATION_DELAY_MAX_SECONDS
                                  - THERMAL_ACTIVATION_DELAY_MIN_SECONDS, 0)
        slotSize == activationRange \div n
        index == ranked(k.keys, k.rank)
        centerDelay == THERMAL_ACTIVATION_DELAY_MIN_SECONDS
                          + k.rank * slotSize + (slotSize \div 2)
        jitter == ((v[1] - (Half \div 2)) * slotSize * 7) \div (Half * 10)
        delayed == Min(THERMAL_ACTIVATION_DELAY_MAX_SECONDS,
                       Max(THERMAL_ACTIVATION_DELAY_MIN_SECONDS, centerDelay + jitter))
    IN [k EXCEPT !.thermals[index].activationAt = k.batchNow + delayed,
                 !.rank = @ + 1,
                 !.pc = IF k.rank + 1 < n THEN "activate" ELSE "done"]

\* faulty variant: the generator is seeded with the seed and the time of the call
beginThermalsSeededByTime(seed, g, t, first) ==
    [op |-> "thermals", seed |-> seed, g |-> createRng(SeedNumber(seed + t)),
     batchNow |-> t, thermals |-> <<>>, pc |-> "scored", i |-> 0, attempt |-> 0,
     bestCandidate |-> <<>>, survived |-> FALSE, keys |-> <<>>, rank |-> 0,
     first |-> first]

\* the start of a call: the generator g of the seed and the clock reading t
beginThermals(seed, g, t, first) ==
    [op |-> "thermals", seed |-> seed, g |-> g, batchNow |-> t, thermals |-> <<>>,
     pc |-> "scored", i |-> 0, attempt |-> 0, bestCandidate |-> <<>>,
     survived |-> FALSE, keys |-> <<>>, rank |-> 0, first |-> first]

-----------------------------------------------------------------------------
(* Join and leave.                                                         *)

\* the nickname of onJoin
Nickname(sessionId, options) ==
    LET given == Field(options, "nickname")
    IN IF given.t = "string" /\ Len(Trim(given.v)) > 0
       THEN Slice0(Trim(given.v), NICKNAME_MAX)
       ELSE <<"P", "i", "l", "o", "t", "-">> \o Slice0(<<sessionId>>, 4)

\* Math.random() of onJoin: a point of the spawn ring and the yaw atan2(x, z) there
JoinSpawns == {[x |-> 860, z |-> 0, yaw |-> 1571]}

onJoin(r, sessionId, options, spawn, t1, t2, t3, rnd) ==
    LET player == [NetPlayer(t1) EXCEPT !.nickname = Nickname(sessionId, options),
                                        !.x = spawn.x, !.z = spawn.z, !.yaw = spawn.yaw]
        joined == [r EXCEPT !.state.players = MapSet(r.state.players, sessionId, player)]
    IN updateOrbLifecycle(joined, t2, t3, rnd)

\* faulty variant: the orb is not respawned when its holder leaves
onLeaveKeepsHolder(r, sessionId, t1, t2, t3, rnd) ==
    updateOrbLifecycle([r EXCEPT !.state.players = MapDelete(r.state.players, sessionId)],
                       t2, t3, rnd)

\* faulty variant: the leave of the holder clears the orb state instead of respawning the orb
onLeaveClearsOrb(r, sessionId, t1, t2, t3, rnd) ==
    LET freed == IF r.state.orbActive /\ r.state.orb.holderSessionId = sessionId
                 THEN clearOrbState(r)
                 ELSE r
        left == [freed EXCEPT !.state.players = MapDelete(freed.state.players, sessionId)]
    IN updateOrbLifecycle(left, t2, t3, rnd)

onLeave(r, sessionId, t1, t2, t3, rnd) ==
    LET freed == IF r.state.orbActive /\ r.state.orb.holderSessionId = sessionId
                 THEN respawnOrb(r.state, rnd, t1)
                 ELSE r.state
        left == [r EXCEPT !.state = [freed EXCEPT !.players = MapDelete(freed.players, sessionId)]]
    IN updateOrbLifecycle(left, t2, t3, rnd)

-----------------------------------------------------------------------------
(* The inputs of the model.                                                *)

\* the join options of each client: a nickname to trim, or none
JoinOptions(sessionId) ==
    IF sessionId = "a" THEN {JsObj([nickname |-> JsStr(<<" ", "A", "c", "e", " ">>)])}
    ELSE {JsUndefined}

\* the payload of the spec's pose-resilience case: {x: "bad", y: 5, z: NaN}
BadPose == JsObj([x |-> JsStr(<<"b", "a", "d">>), y |-> JsNum(50), z |-> JsNaN])
\* a full pose at the orb's spawn point
OrbPose ==
    JsObj([x |-> JsNum(0), y |-> JsNum(240), z |-> JsNum(0), yaw |-> JsNum(100),
           bank |-> JsNum(-20), speedbar |-> JsBool(TRUE)])
\* a full pose 2.6 units east of the spawn point: in pickup range, out of steal range
NearPose ==
    JsObj([x |-> JsNum(26), y |-> JsNum(240), z |-> JsNum(0), yaw |-> JsNum(100),
           bank |-> JsNum(-20), speedbar |-> JsBool(TRUE)])
\* a partial pose: a new bank alone
BankPose == JsObj([bank |-> JsNum(30)])

\* The inputs of a specification: the session ids in the order the transport hands them
\* out, the pose payloads each client sends, the deltaTime values of the ticks, and the
\* bounds on the scores, on the hold history and on the clock.
GameInputs ==
    [ids |-> <<"a", "b", "c">>,
     poses |-> [a |-> {OrbPose}, b |-> {OrbPose}, c |-> {NearPose}],
     deltaTimes |-> {0, 1000}, maxScore |-> MaxScore, holdCap |-> 0,
     maxClock |-> MaxClockMs, steps |-> ClockSteps]

PoseInputs ==
    [ids |-> <<"a", "b">>,
     poses |-> [a |-> {JsNull, JsStr(<<"j">>), BadPose, OrbPose, BankPose},
                b |-> {OrbPose}],
     deltaTimes |-> {0, 1000}, maxScore |-> MaxScore, holdCap |-> 0,
     maxClock |-> MaxClockMs, steps |-> ClockSteps]

TagInputs ==
    [ids |-> <<"a", "b", "c">>,
     poses |-> [a |-> {OrbPose}, b |-> {NearPose}, c |-> {}],
     deltaTimes |-> {0, 1000}, maxScore |-> MaxScore, holdCap |-> 0,
     maxClock |-> MaxClockMs, steps |-> ClockSteps]

StealInputs ==
    [ids |-> <<"a", "b", "c">>,
     poses |-> [a |-> {OrbPose}, b |-> {OrbPose}, c |-> {OrbPose}],
     deltaTimes |-> {0, 1000}, maxScore |-> MaxScore, holdCap |-> 0,
     maxClock |-> MaxClockMs, steps |-> ClockSteps]

ScoreInputs ==
    [ids |-> <<"a", "b">>, poses |-> [a |-> {OrbPose}, b |-> {OrbPose}],
     deltaTimes |-> {500, 1500}, maxScore |-> MaxRunScore, holdCap |-> MaxHoldMs,
     maxClock |-> MaxClockMs, steps |-> ClockSteps]

\* a client that moves between the orb's spawn point and a point near it
FollowInputs ==
    [ids |-> <<"a", "b">>, poses |-> [a |-> {OrbPose, NearPose}, b |-> {OrbPose}],
     deltaTimes |-> {0, 1000}, maxScore |-> MaxScore, holdCap |-> 0,
     maxClock |-> MaxClockMs, steps |-> ClockSteps]

ReseedInputs ==
    [ids |-> <<"a", "b">>, poses |-> [a |-> {OrbPose}, b |-> {OrbPose}],
     deltaTimes |-> {1000}, maxScore |-> MaxScore, holdCap |-> 0,
     maxClock |-> MaxReseedClockMs, steps |-> ClockSteps]

-----------------------------------------------------------------------------
(* The state machine.                                                      *)

Holder(r) == r.state.orb.holderSessionId
Score(r, s) == MapGet(r.state.players, s).currentOrbScore

\* the session ids of a specification
Ids(in) == {in.ids[i] : i \in DOMAIN in.ids}

\* the time the reseed timer next fires: every THERMAL_RESEED_SECONDS from the creation
ReseedDueMs(r) ==
    StartMs + ((r.state.worldSeed - INITIAL_WORLD_SEED) \div RESEED_STEP + 1)
                  * THERMAL_RESEED_SECONDS * 1000

Reads(t, steps, in) == {t + d : d \in {e \in steps : t + e <= in.maxClock}}

\* the history of the holder's run after a handler took r to r2 (deltaTime 0 off the tick)
HoldAfter(r, r2, deltaTime, cap) ==
    IF Holder(r2) = "" \/ cap = 0 THEN [ms |-> 0, points |-> 0]
    ELSE IF Holder(r2) = Holder(r)
         THEN [ms |-> Min(hold.ms + deltaTime, cap),
               points |-> hold.points + (Score(r2, Holder(r2)) - Score(r, Holder(r)))]
         ELSE [ms |-> Min(deltaTime, cap), points |-> Score(r2, Holder(r2))]

\* no call is followed
NoCall == [op |-> "none"]

\* the state after construction (WorldState's constructor and onCreate)
Init ==
    /\ room = [state |-> [WorldState(StartMs) EXCEPT
                             !.thermals = buildThermals(INITIAL_WORLD_SEED, StartMs)],
               scoreAccumulatorMs |-> 0,
               orbCountdownEndsAtMs |-> Null]
    /\ clock = StartMs
    /\ hold = [ms |-> 0, points |-> 0]
    /\ used = {}
    /\ call = NoCall

\* beginOrbCountdown ran (and read the clock) on the way from r to r2
Began(r, r2) == r.orbCountdownEndsAtMs = Null /\ r2.orbCountdownEndsAtMs # Null

Step(r2, t, deltaTime, in) ==
    /\ room' = r2
    /\ clock' = t
    /\ hold' = HoldAfter(room, r2, deltaTime, in.holdCap)
    /\ UNCHANGED call

\* Time passes before a handler runs (t1, its first read of the clock) and, in a join,
\* between the read that gives updateOrbLifecycle its now and the later read of
\* beginOrbCountdown (t3 below).  A tick that would take a score beyond the bound of the
\* specification is not taken.  The transport hands out fresh session ids, here in the
\* order of in.ids.
Join(sessionId, in) ==
    /\ Cardinality(used) < Len(in.ids)
    /\ sessionId = in.ids[Cardinality(used) + 1]
    /\ MapSize(room.state.players) < MAX_CLIENTS
    /\ used' = used \cup {sessionId}
    /\ \E options \in JoinOptions(sessionId), spawn \in JoinSpawns, rnd \in OrbSpawns :
       \E t1 \in Reads(clock, in.steps, in) : \E t3 \in Reads(t1, ReadSkews, in) :
          LET r2 == onJoin(room, sessionId, options, spawn, t1, t1, t3, rnd)
          IN /\ t3 = t1 \/ Began(room, r2)
             /\ Step(r2, t3, 0, in)

Leave(sessionId, in) ==
    /\ UNCHANGED used
    /\ MapHas(room.state.players, sessionId)
    /\ \E rnd \in OrbSpawns : \E t1 \in Reads(clock, in.steps, in) :
          Step(onLeave(room, sessionId, t1, t1, t1, rnd), t1, 0, in)

Pose(sessionId, in) ==
    /\ UNCHANGED used
    /\ \E pose \in in.poses[sessionId] : \E t1 \in Reads(clock, in.steps, in) :
       Step(onPose(room, sessionId, pose, t1), t1, 0, in)

Crash(sessionId, in) ==
    /\ UNCHANGED used
    /\ room.state.orb.holderSessionId = sessionId => room.state.orb.spawnSeq < MaxSpawnSeq
    /\ \E rnd \in OrbSpawns : \E t1 \in Reads(clock, in.steps, in) :
          Step(onCrash(room, sessionId, rnd, t1), t1, 0, in)

Tick(in) ==
    /\ UNCHANGED used
    /\ \E deltaTime \in in.deltaTimes, rnd \in OrbSpawns :
       \E t1 \in Reads(clock, in.steps, in) :
          LET r2 == onTick(room, deltaTime, t1, t1, t1, rnd)
          IN /\ \A i \in DOMAIN r2.state.players :
                   r2.state.players[i].value.bestOrbScore <= in.maxScore
             /\ Step(r2, t1, deltaTime, in)

Reseed(in) ==
    /\ UNCHANGED used
    /\ clock >= ReseedDueMs(room)
    /\ Step(onReseed(room, clock), clock, 0, in)

NextOf(in) ==
    \/ \E sessionId \in Ids(in) : Join(sessionId, in)
    \/ \E sessionId \in Ids(in) : Leave(sessionId, in)
    \/ \E sessionId \in Ids(in) : Pose(sessionId, in)
    \/ \E sessionId \in Ids(in) : Crash(sessionId, in)
    \/ Tick(in)
    \/ Reseed(in)

\* the orb game of three clients
Next == NextOf(GameInputs)
Spec == Init /\ [][Next]_vars

\* three clients and a clock read every 4 s: three reads within a countdown
CountdownInputs ==
    [ids |-> <<"a", "b", "c">>, poses |-> [a |-> {OrbPose}, b |-> {}, c |-> {}],
     deltaTimes |-> {1000}, maxScore |-> MaxScore, holdCap |-> 0,
     maxClock |-> MaxClockMs, steps |-> {0, 4000}]

\* three clients: one that goes to the orb's spawn point and two that send no pose
LifeInputs ==
    [ids |-> <<"a", "b", "c">>, poses |-> [a |-> {OrbPose}, b |-> {}, c |-> {}],
     deltaTimes |-> {1000}, maxScore |-> MaxScore, holdCap |-> 0,
     maxClock |-> MaxClockMs, steps |-> ClockSteps]

\* the simulation interval keeps firing: a tick that changes the state (the clock, if
\* nothing else) is taken in the end
NextLife == NextOf(LifeInputs)
SpecLife == Init /\ [][NextLife]_vars /\ WF_vars(Tick(LifeInputs))

\* joins, leaves and ticks while a countdown runs
NextCountdown == NextOf(CountdownInputs)
SpecCountdown == Init /\ [][NextCountdown]_vars

\* two clients and every kind of pose payload
NextPose == NextOf(PoseInputs)
SpecPose == Init /\ [][NextPose]_vars

\* two clients, ticks of 500 and 1500 ms, the holder's run followed
NextScore == NextOf(ScoreInputs)
SpecScore == Init /\ [][NextScore]_vars

\* a client at the orb's spawn point, a client near it and a client that sends no pose
NextTag == NextOf(TagInputs)
SpecTag == Init /\ [][NextTag]_vars

\* three clients at the orb's spawn point, within steal range of each other
NextSteal == NextOf(StealInputs)
SpecSteal == Init /\ [][NextSteal]_vars

\* two clients, one of which moves while it holds the orb
NextFollow == NextOf(FollowInputs)
SpecFollow == Init /\ [][NextFollow]_vars

\* two clients and a clock that runs long enough for two reseeds
NextReseed == NextOf(ReseedInputs)
SpecReseed == Init /\ [][NextReseed]_vars

\* The generator of createRng, called again and again.  Two generators are followed,
\* one from a seed and one from a seed that is equal to it modulo 2^32, from their
\* creation or from a state that many calls have led to, next to a 32-bit counter that
\* starts at the seed and advances by 0x6d2b79f5 modulo 2^32 with every call.
RngSeeds == {<<0, 0, 0>>, <<0, 0, 5000>>, <<0, 65535, 65535>>}
RngStarts == {0, 4917750}

InitRng ==
    /\ room = [state |-> WorldState(StartMs), scoreAccumulatorMs |-> 0,
               orbCountdownEndsAtMs |-> Null]
    /\ clock = StartMs
    /\ hold = [ms |-> 0, points |-> 0]
    /\ used = {}
    /\ \E seed \in RngSeeds, k \in {0, 1}, start \in RngStarts :
          call = [op |-> "rng", seed |-> seed, seedB |-> AddExact(seed, <<k, 0, 0>>),
                  start |-> start, n |-> start,
                  a |-> Advanced(createRng(seed), start),
                  b |-> Advanced(createRng(AddExact(seed, <<k, 0, 0>>)), start),
                  counter |-> ToWord(Advanced(createRng(seed), start).t),
                  valueA |-> <<0, 0>>, valueB |-> <<0, 0>>]

RngCall ==
    /\ call.n < call.start + MaxRngCalls
    /\ call' = [call EXCEPT !.n = @ + 1,
                            !.a = rng(call.a).g, !.valueA = rng(call.a).value,
                            !.b = rng(call.b).g, !.valueB = rng(call.b).value,
                            !.counter = AddWord[@, ToWord(RNG_INCREMENT)]]
    /\ UNCHANGED <<room, clock, hold, used>>

NextRng == RngCall
SpecRng == InitRng /\ [][NextRng]_vars

\* The calls of buildThermals: for the seeds of the room, with the generator followed,
\* twice in a row (the clock advances in between and before every constructor), and for
\* a seed whose generator is not followed, every group of four values drawn from draws
\* (a small thermal at the center, a large one at the rim) and every key and jitter
\* value from values.
ThermalInputs ==
    [seeds |-> {INITIAL_WORLD_SEED + n * RESEED_STEP : n \in 0..MaxReseeds},
     unfollowed |-> {0},
     draws |-> {<<<<0, 0>>, <<0, 0>>, <<0, 0>>, <<0, 0>>>>,
                <<<<0, 0>>, <<65535, 65535>>, <<65535, 65535>>, <<65535, 65535>>>>},
     values |-> {<<0, 0>>, <<65535, 65535>>},
     maxClock |-> MaxClockMs]

InitThermals ==
    /\ room = [state |-> WorldState(StartMs), scoreAccumulatorMs |-> 0,
               orbCountdownEndsAtMs |-> Null]
    /\ clock = StartMs
    /\ hold = [ms |-> 0, points |-> 0]
    /\ used = {}
    /\ \/ \E seed \in ThermalInputs.seeds :
             call = beginThermals(seed, createRng(SeedNumber(seed)), StartMs, <<>>)
       \/ \E seed \in ThermalInputs.unfollowed :
             call = beginThermals(seed, Unfollowed, StartMs, <<>>)

ScoredCandidate(in) ==
    /\ call.pc = "scored"
    /\ \E d \in Drawn4(call.g, in.draws) : \E c \in {Candidate(d.values)} :
          call' = scoredCandidate([call EXCEPT !.g = d.g], c)
    /\ UNCHANGED <<room, clock, hold, used>>

FallbackAttempt(in) ==
    /\ call.pc = "fallback"
    /\ \E d \in Drawn4(call.g, in.draws) : \E c \in {Candidate(d.values)} :
          call' = fallbackAttempt([call EXCEPT !.g = d.g], c)
    /\ UNCHANGED <<room, clock, hold, used>>

Place(in) ==
    /\ call.pc = "place"
    /\ \E d \in Drawn4(call.g, in.draws) : \E t1 \in Reads(clock, ClockSteps, in) :
          /\ call' = placeThermal([call EXCEPT !.g = d.g], d.values, t1)
          /\ clock' = t1
    /\ UNCHANGED <<room, hold, used>>

RankKey(in) ==
    /\ call.pc = "rank"
    /\ \E d \in Drawn(call.g, in.values) :
          call' = rankKey([call EXCEPT !.g = d.g], d.value)
    /\ UNCHANGED <<room, clock, hold, used>>

ActivateRank(in) ==
    /\ call.pc = "activate"
    /\ \E d \in Drawn(call.g, in.values) :
          call' = activateRank([call EXCEPT !.g = d.g], d.value)
    /\ UNCHANGED <<room, clock, hold, used>>

\* a second call with the same seed, at a later reading of the clock
Again(in) ==
    /\ call.pc = "done"
    /\ call.first = <<>>
    /\ call.g # Unfollowed
    /\ \E t1 \in Reads(clock, ClockSteps, in) :
          /\ call' = beginThermals(call.seed, createRng(SeedNumber(call.seed)), t1,
                                   <<[thermals |-> call.thermals,
                                      batchNow |-> call.batchNow]>>)
          /\ clock' = t1
    /\ UNCHANGED <<room, hold, used>>

NextThermals ==
    \/ ScoredCandidate(ThermalInputs)
    \/ FallbackAttempt(ThermalInputs)
    \/ Place(ThermalInputs)
    \/ RankKey(ThermalInputs)
    \/ ActivateRank(ThermalInputs)
    \/ Again(ThermalInputs)

SpecThermals == InitThermals /\ [][NextThermals]_vars

\* the loops of buildThermals run on: no step of a call waits for anything
SpecThermalsFair == SpecThermals /\ WF_vars(NextThermals)

-----------------------------------------------------------------------------
(* The claims.                                                             *)

Keys == MapKeys(room.state.players)
Size == MapSize(room.state.players)
Player(s) == MapGet(room.state.players, s)
Left == used \ Keys

\* C1: at every handler boundary orb.holderSessionId is the empty string or the
\* session id of a player present in the players mapping (no dangling holder).
C1_HolderIsPlayer == Holder(room) = "" \/ MapHas(room.state.players, Holder(room))

\* a held orb after the orb was respawned at least twice and a player has left
C1_Witness ==
    /\ Holder(room) # ""
    /\ Left # {}
    /\ room.state.orb.spawnSeq >= 2

\* C3: with fewer than 2 players, at every handler boundary orbActive is false,
\* orbCountdownRemainingMs is 0 and the holder is empty.
C3_FewPlayersInactive ==
    Size < ORB_MIN_PLAYERS =>
        /\ ~room.state.orbActive
        /\ room.state.orbCountdownRemainingMs = 0
        /\ Holder(room) = ""

\* one player is left, who has points from holding the orb when the other left
C3_Witness ==
    /\ Size = 1
    /\ Left # {}
    /\ \E s \in Keys : Player(s).currentOrbScore > 0

\* C2: a player who holds the orb continuously over a run of ticks whose deltaTime
\* values sum to exactly 3500 ms, from the tick of becoming holder on, has had
\* exactly 3 increments of currentOrbScore in that run, whatever the split into ticks
\* and whatever the room's score accumulator held before the run.
C2_ExactlyThree ==
    (Holder(room) # "" /\ hold.ms = 3500) => hold.points = 3

\* C4: a join that takes the player count from 1 to 2 while the orb is inactive
\* leaves orbCountdownRemainingMs at exactly 10000, and while at least 2 players stay
\* connected the value never increases from one handler boundary to the next until
\* it reaches 0.
C4_CountdownFromTenSeconds ==
    [][/\ (Size = 1 /\ Size' = 2 /\ ~room.state.orbActive) =>
              room'.state.orbCountdownRemainingMs = ORB_START_COUNTDOWN_MS
       /\ (Size >= 2 /\ Size' >= 2 /\ room.state.orbCountdownRemainingMs > 0) =>
              room'.state.orbCountdownRemainingMs <= room.state.orbCountdownRemainingMs
      ]_vars

\* C5: orbActive goes from false to true only in a lifecycle evaluation of a running
\* countdown whose remaining time is computed as 0; that evaluation respawns the orb
\* (holder empty, spawnSeq one more) and clears the deadline, so a countdown activates
\* once; a player takes the orb at the earliest in the pickup of that same tick.
\* orbActive is never true with time remaining or with fewer than 2 players.
C5_ActivatedOnceAtZero ==
    [][/\ (~room.state.orbActive /\ room'.state.orbActive) =>
              /\ room.orbCountdownEndsAtMs # Null
              /\ room.orbCountdownEndsAtMs <= clock'
              /\ room'.orbCountdownEndsAtMs = Null
              /\ room'.state.orb.spawnSeq = room.state.orb.spawnSeq + 1
              /\ \A rnd \in OrbSpawns :
                    LET r1 == updateOrbLifecycle(room, clock', clock', rnd)
                    IN /\ r1.state.orbActive
                       /\ Holder(r1) = ""
                       /\ r1.state.orb.spawnSeq = room.state.orb.spawnSeq + 1
                       /\ r1.orbCountdownEndsAtMs = Null
              /\ \/ Holder(room') = ""
                 \/ /\ MapHas(room'.state.players, Holder(room'))
                    /\ room'.state.orb.lastTransferAtMs = room'.state.serverTimeMs
       /\ room'.state.orbActive =>
              /\ room'.state.orbCountdownRemainingMs = 0
              /\ room'.orbCountdownEndsAtMs = Null
              /\ Size' >= ORB_MIN_PLAYERS
      ]_vars

\* the orb is active and unheld after its first respawn
C5_Witness ==
    /\ room.state.orbActive
    /\ room.state.orb.spawnSeq = 1
    /\ Holder(room) = ""
    /\ room.state.orb.lastTransferAtMs >= StartMs + ORB_START_COUNTDOWN_MS

\* C6: from join to leave a player's bestOrbScore never decreases, whatever the
\* ticks, messages, steals, respawns, reseeds and joins or leaves of others.
C6_BestNeverDecreases ==
    [][\A s \in Keys :
          s \in MapKeys(room'.state.players) =>
              MapGet(room'.state.players, s).bestOrbScore >= Player(s).bestOrbScore
      ]_vars

\* a player whose current score fell back below a best score of at least 2
C6_Witness ==
    \E s \in Keys :
        /\ Player(s).bestOrbScore >= 2
        /\ Player(s).currentOrbScore < Player(s).bestOrbScore

C8_NonHolderAtZero ==
    \A s \in Keys : s # Holder(room) => Player(s).currentOrbScore = 0

\* the pose handler took the room from its state to the next, for sender s and payload pose
PoseStep(s, pose) == room' = onPose(room, s, pose, clock')

\* C9 (as stated): the pose {x: "bad", y: 5, z: NaN} changes only the sender's y;
\* x, z, yaw, bank and speedbar keep their values.
C9_OnlyYChanges ==
    [][\A s \in Keys :
          PoseStep(s, BadPose) =>
              LET old == Player(s)
                  new == MapGet(room'.state.players, s)
              IN /\ new.y = 50
                 /\ new.x = old.x /\ new.z = old.z
                 /\ new.yaw = old.yaw /\ new.bank = old.bank
                 /\ new.speedbar = old.speedbar
      ]_vars

\* C9 (amended): the pose {x: "bad", y: 5, z: NaN} sets the sender's y, sets speedbar
\* to false (the absent field coerced) and refreshes updatedAtMs; x, z, yaw, bank and
\* every other field of the sender keep their values, and the handler completes.
C9_YAndSpeedbarChange ==
    [][\A s \in Keys :
          PoseStep(s, BadPose) =>
              /\ MapHas(room'.state.players, s)
              /\ MapGet(room'.state.players, s) =
                     [Player(s) EXCEPT !.y = 50, !.speedbar = FALSE, !.updatedAtMs = clock']
      ]_vars

\* the payload arrived after a full pose with the speedbar on: y is 5, the speedbar is off
C9_Witness ==
    \E s \in Keys :
        /\ Player(s).y = 50
        /\ Player(s).x = 0
        /\ Player(s).yaw = 100
        /\ ~Player(s).speedbar

\* C10: a pose message changes nothing but the sender's x, y, z, yaw, bank, speedbar
\* and updatedAtMs: the other players, all scores, the orb, orbActive, the countdown,
\* the thermals and worldSeed stay; with no Player for the sender or a payload that is
\* not an object the whole state stays.
C10_PoseFrame ==
    [][\A s \in Ids(PoseInputs) : \A pose \in PoseInputs.poses[s] :
          PoseStep(s, pose) =>
              LET ps == room.state.players
                  ps2 == room'.state.players
              IN /\ [room' EXCEPT !.state.players = ps] = room
                 /\ Len(ps2) = Len(ps)
                 /\ \A i \in DOMAIN ps :
                       /\ ps2[i].key = ps[i].key
                       /\ ps[i].key # s => ps2[i] = ps[i]
                       /\ [ps2[i].value EXCEPT !.x = ps[i].value.x,
                                               !.y = ps[i].value.y,
                                               !.z = ps[i].value.z,
                                               !.yaw = ps[i].value.yaw,
                                               !.bank = ps[i].value.bank,
                                               !.speedbar = ps[i].value.speedbar,
                                               !.updatedAtMs = ps[i].value.updatedAtMs]
                              = ps[i].value
                 /\ (s \notin Keys \/ pose.t # "object") => room' = room
      ]_vars

\* a partial pose took effect next to a held orb: one player banks at the spawn yaw
\* while a player holds the orb and has a point
C10_Witness ==
    /\ \E s \in Keys : Player(s).bank = 30 /\ Player(s).yaw = 1571
    /\ \E s \in Keys : Holder(room) = s /\ Player(s).currentOrbScore > 0

\* the crash handler took the room from its state to the next, for sender s
CrashStep(s) == \E rnd \in OrbSpawns : room' = onCrash(room, s, rnd, clock')

\* C11: when the sender of a crash message holds the active orb, after the handler
\* the sender's currentOrbScore is 0, its bestOrbScore is unchanged, the holder is
\* empty, spawnSeq is one more and orbActive is still true.
C11_HolderCrash ==
    [][\A s \in Keys :
          (room.state.orbActive /\ Holder(room) = s /\ CrashStep(s)) =>
              /\ MapHas(room'.state.players, s)
              /\ MapGet(room'.state.players, s).currentOrbScore = 0
              /\ MapGet(room'.state.players, s).bestOrbScore = Player(s).bestOrbScore
              /\ Holder(room') = ""
              /\ room'.state.orb.spawnSeq = room.state.orb.spawnSeq + 1
              /\ room'.state.orbActive
      ]_vars

\* the holder crashed with a point: the orb is free after its second respawn, nobody
\* has left, and a player is at 0 with a best score
C11_Witness ==
    /\ room.state.orbActive
    /\ Holder(room) = ""
    /\ Left = {}
    /\ room.state.orb.spawnSeq = 2
    /\ \E s \in Keys : Player(s).currentOrbScore = 0 /\ Player(s).bestOrbScore > 0

\* C12: a crash message from a sender who is not the holder, or received while the
\* orb is inactive, leaves the whole world state unchanged (players, scores, orb,
\* lifecycle, accumulator).
C12_OtherCrashNoOp ==
    [][\A s \in Ids(GameInputs) :
          (~(room.state.orbActive /\ Holder(room) = s) /\ CrashStep(s)) =>
              room' = room /\ hold' = hold
      ]_vars

\* a crash of the other player would find the orb held by a player with a point
C12_Witness ==
    /\ Size >= 2
    /\ \E s \in Keys : Holder(room) = s /\ Player(s).currentOrbScore > 0

\* C13: in a tick where the orb is active and unheld after the holder-follow step,
\* the holder after the tick is the first player in insertion order within pickup
\* range of the orb (horizontal distance <= 2.8, vertical <= 4.5); that player's
\* currentOrbScore was set to 0 at the pickup (so it ends the tick with the points of
\* this tick alone), lastTransferAtMs is the tick's time and the orb is at the player;
\* with no player in range the orb stays unheld.
C13_PickupFirstInRange ==
    [][\A rnd \in OrbSpawns : \A deltaTime \in TagInputs.deltaTimes :
          LET r1 == updateOrbLifecycle([room EXCEPT !.state.serverTimeMs = clock'],
                                       clock', clock', rnd)
              orb == holderFollow(r1.state, rnd, clock').orb
              ps == room.state.players
              inRange == {i \in DOMAIN ps :
                             /\ (ps[i].value.x - orb.x) * (ps[i].value.x - orb.x)
                                    + (ps[i].value.z - orb.z) * (ps[i].value.z - orb.z)
                                <= 28 * 28
                             /\ ps[i].value.y - orb.y <= 45
                             /\ orb.y - ps[i].value.y <= 45}
          IN (/\ room'.state.serverTimeMs = clock'
              /\ r1.state.orbActive
              /\ orb.holderSessionId = ""
              /\ room' = onTick(room, deltaTime, clock', clock', clock', rnd)) =>
                 IF inRange = {}
                 THEN Holder(room') = ""
                 ELSE LET i == CHOOSE k \in inRange : \A j \in inRange : k <= j
                          taker == room'.state.players[i]
                      IN /\ Holder(room') = ps[i].key
                         /\ taker.key = ps[i].key
                         /\ taker.value.currentOrbScore =
                                (room.scoreAccumulatorMs + deltaTime) \div ORB_SCORE_INTERVAL_MS
                         /\ room'.state.orb.lastTransferAtMs = clock'
                         /\ room'.state.orb.x = taker.value.x
                         /\ room'.state.orb.y = taker.value.y + 9
                         /\ room'.state.orb.z = taker.value.z
      ]_vars

\* after a second countdown the orb went to the first of two players in range, the one
\* at the orb and not the one 2.6 away; the taker is at 0 with a best score
C13_Witness ==
    /\ Size >= 2
    /\ Left # {}
    /\ room.state.orb.spawnSeq = 2
    /\ room.state.orb.lastTransferAtMs = room.state.serverTimeMs
    /\ Holder(room) = room.state.players[1].key
    /\ room.state.players[1].value.x = 0
    /\ room.state.players[1].value.currentOrbScore = 0
    /\ room.state.players[1].value.bestOrbScore > 0
    /\ room.state.players[2].value.x = 26

\* C14: the holder changes directly from one player to another only in a tick whose
\* time is at least 1000 ms after orb.lastTransferAtMs, and only to the first player in
\* insertion order, other than the holder, within steal range of the holder
\* (horizontal <= 2.4, vertical <= 3.5); in that tick both have currentOrbScore set to
\* 0 (the new holder ends it with the points of this tick alone) and lastTransferAtMs
\* is the tick's time.
C14_StealAfterCooldown ==
    [][\A p \in Keys :
          (Holder(room) = p /\ Holder(room') # p /\ Holder(room') # "") =>
              LET ps == room.state.players
                  holder == Player(p)
                  q == Holder(room')
                  inRange == {i \in DOMAIN ps :
                                 /\ ps[i].key # p
                                 /\ (ps[i].value.x - holder.x) * (ps[i].value.x - holder.x)
                                        + (ps[i].value.z - holder.z) * (ps[i].value.z - holder.z)
                                    <= 24 * 24
                                 /\ ps[i].value.y - holder.y <= 35
                                 /\ holder.y - ps[i].value.y <= 35}
              IN /\ room'.state.serverTimeMs = clock'
                 /\ clock' - room.state.orb.lastTransferAtMs >= 1000
                 /\ inRange # {}
                 /\ q = ps[CHOOSE k \in inRange : \A j \in inRange : k <= j].key
                 /\ MapHas(room'.state.players, p)
                 /\ MapGet(room'.state.players, p).currentOrbScore = 0
                 /\ \E deltaTime \in StealInputs.deltaTimes :
                        MapGet(room'.state.players, q).currentOrbScore =
                            (room.scoreAccumulatorMs + deltaTime) \div ORB_SCORE_INTERVAL_MS
                 /\ room'.state.orb.lastTransferAtMs = clock'
                 /\ room'.state.orb.spawnSeq = room.state.orb.spawnSeq
      ]_vars

\* a steal happened: the orb of the first spawn is held, nobody has left, and another
\* player is at 0 with a best score from holding it
C14_Witness ==
    /\ Left = {}
    /\ Size = 3
    /\ room.state.orb.spawnSeq = 1
    /\ \E p \in Keys :
          /\ Holder(room) \notin {"", p}
          /\ Player(p).currentOrbScore = 0
          /\ Player(p).bestOrbScore > 0

\* C15: when the client that holds an active orb leaves, the orb is respawned (holder
\* empty, spawnSeq one more) and the lifecycle is evaluated after the removal: with at
\* least 2 players left the orb stays active and unheld, with fewer it is inactive
\* (countdown 0, no deadline); the departed session id is never the holder afterwards.
C15_HolderLeaves ==
    [][\A s \in Keys :
          (/\ room.state.orbActive
           /\ Holder(room) = s
           /\ ~MapHas(room'.state.players, s)) =>
              /\ Holder(room') = ""
              /\ room'.state.orb.spawnSeq = room.state.orb.spawnSeq + 1
              /\ room'.state.orb.lastTransferAtMs = clock'
              /\ MapSize(room'.state.players) = Size - 1
              /\ IF Size - 1 >= ORB_MIN_PLAYERS
                 THEN room'.state.orbActive /\ room'.state.orbCountdownRemainingMs = 0
                 ELSE /\ ~room'.state.orbActive
                      /\ room'.state.orbCountdownRemainingMs = 0
                      /\ room'.orbCountdownEndsAtMs = Null
      ]_vars

\* the holder left two players behind: the orb is active and free after its second
\* respawn, and the only client that left is the first one
C15_Witness ==
    /\ room.state.orbActive
    /\ Holder(room) = ""
    /\ Size = 2
    /\ Cardinality(Left) = 1
    /\ room.state.orb.spawnSeq = 2
    /\ \A s \in Keys : Player(s).bestOrbScore = 0

\* C16: the world seed is 5000 plus a multiple of 131 and every thermal of the state has
\* the id thermal-<worldSeed>-<i>, i its index in the list; the seed changes only by
\* +131, in a step that replaces every thermal and leaves the players (and their
\* scores), the orb, orbActive, the countdown and the score accumulator unchanged; the
\* thermals change only in such a step.
C16_ReseedAdvancesSeed ==
    /\ [](/\ room.state.worldSeed >= INITIAL_WORLD_SEED
          /\ (room.state.worldSeed - INITIAL_WORLD_SEED) % RESEED_STEP = 0
          /\ \A i \in DOMAIN room.state.thermals :
                room.state.thermals[i].id = <<"thermal", room.state.worldSeed, i - 1>>)
    /\ [][
           /\ (room'.state.thermals # room.state.thermals)
                => (room'.state.worldSeed # room.state.worldSeed)
           /\ (room'.state.worldSeed # room.state.worldSeed)
                => /\ room'.state.worldSeed = room.state.worldSeed + RESEED_STEP
                   /\ \A i \in DOMAIN room'.state.thermals :
                         \A j \in DOMAIN room.state.thermals :
                            room'.state.thermals[i].id # room.state.thermals[j].id
                   /\ room'.state.players = room.state.players
                   /\ room'.state.orb = room.state.orb
                   /\ room'.state.orbActive = room.state.orbActive
                   /\ room'.state.orbCountdownRemainingMs
                         = room.state.orbCountdownRemainingMs
                   /\ room'.orbCountdownEndsAtMs = room.orbCountdownEndsAtMs
                   /\ room'.scoreAccumulatorMs = room.scoreAccumulatorMs
       ]_vars

\* two reseeds have happened while a player holds the orb with a score
C16_Witness ==
    /\ room.state.worldSeed = INITIAL_WORLD_SEED + 2 * RESEED_STEP
    /\ room.state.thermals # <<>>
    /\ \E s \in Keys : Holder(room) = s /\ Player(s).bestOrbScore > 0

\* C17: the thermals of a call, at its end and while it runs, are pairwise apart: the
\* distance of two centers is at least the sum of the two radii and the minimum gap
\* (compared as squares).  This holds of every set, also of one with fewer than 10.
C17_PairwiseApart ==
    call.op = "thermals" =>
        \A i \in DOMAIN call.thermals : \A j \in DOMAIN call.thermals :
           i # j =>
              LET a == call.thermals[i]
                  b == call.thermals[j]
                  apart == a.radius + b.radius + THERMAL_MIN_GAP
              IN (a.x - b.x) * (a.x - b.x) + (a.z - b.z) * (a.z - b.z) >= apart * apart

\* a call has returned 10 thermals, a large one among small ones
C17_Witness ==
    /\ call.op = "thermals" /\ call.pc = "done"
    /\ Len(call.thermals) = THERMAL_COUNT
    /\ \E i \in DOMAIN call.thermals : \E j \in DOMAIN call.thermals :
          call.thermals[i].sizeClass = "large" /\ call.thermals[j].sizeClass = "small"

\* C18: the second of two calls with the same seed returns as many thermals as the
\* first, equal index by index in x, z, radius, sizeClass and id (the ids those of the
\* batch of the seed), and with the same activationAt relative to the clock reading at
\* the start of the call, whatever the clock did during and between the calls.
C18_SameSeedSameLayout ==
    (call.op = "thermals" /\ call.pc = "done" /\ call.first # <<>>) =>
        LET first == call.first[1]
        IN /\ Len(call.thermals) = Len(first.thermals)
           /\ \A i \in DOMAIN call.thermals :
                 LET a == call.thermals[i]
                     b == first.thermals[i]
                 IN /\ a.x = b.x /\ a.z = b.z /\ a.radius = b.radius
                    /\ a.sizeClass = b.sizeClass /\ a.id = b.id
                    /\ a.activationAt - call.batchNow = b.activationAt - first.batchNow
           /\ [i \in DOMAIN call.thermals |-> [id |-> call.thermals[i].id]]
                 = buildThermals(call.seed, call.batchNow)

\* the second call has returned; it began later than the first and the clock moved on
\* while it ran
C18_Witness ==
    /\ call.op = "thermals" /\ call.pc = "done" /\ call.first # <<>>
    /\ call.batchNow > call.first[1].batchNow
    /\ clock > call.batchNow
    /\ Len(call.thermals) = THERMAL_COUNT
    /\ \E i \in DOMAIN call.thermals : call.thermals[i].activationAt > call.batchNow

\* C19: a call never holds more than 10 thermals, a slot never takes more than 64 scored
\* candidates and 120 fallback attempts, the fallback loop runs only after 64 scored
\* candidates none of which survived the overlap test, a call that returns fewer than 10
\* thermals has failed both loops in its last slot, the steps after the placement loop
\* keep the thermals placed (they set activation times), and every call reaches its end.
C19_BoundedGeneration ==
    /\ [](call.op = "thermals" =>
            /\ Len(call.thermals) <= THERMAL_COUNT
            /\ call.i <= THERMAL_CANDIDATES_PER_SLOT
            /\ call.attempt <= THERMAL_FALLBACK_ATTEMPTS_PER_SLOT
            /\ (call.pc = "fallback" \/ call.attempt > 0) =>
                  (call.i = THERMAL_CANDIDATES_PER_SLOT /\ ~call.survived)
            /\ (call.pc = "done" /\ Len(call.thermals) < THERMAL_COUNT) =>
                  /\ call.i = THERMAL_CANDIDATES_PER_SLOT /\ ~call.survived
                  /\ call.attempt = THERMAL_FALLBACK_ATTEMPTS_PER_SLOT
                  /\ Len(call.thermals) >= 1)
    /\ [][
           (call.op = "thermals" /\ call.pc \in {"rank", "activate"}) =>
              /\ call'.pc \in {"rank", "activate", "done"}
              /\ Len(call'.thermals) = Len(call.thermals)
              /\ \A i \in DOMAIN call.thermals :
                    [call'.thermals[i] EXCEPT !.activationAt = 0]
                       = [call.thermals[i] EXCEPT !.activationAt = 0]
       ]_vars
    /\ (call.op = "thermals" /\ call.pc # "done") ~> (call.op = "thermals" /\ call.pc = "done")

\* a call has returned 2 thermals: the third slot failed 64 scored candidates and 120
\* fallback attempts
C19_Witness ==
    /\ call.op = "thermals" /\ call.pc = "done"
    /\ Len(call.thermals) = 2
    /\ call.i = THERMAL_CANDIDATES_PER_SLOT
    /\ call.attempt = THERMAL_FALLBACK_ATTEMPTS_PER_SLOT

\* C20: the n-th value of a generator is the same for two seeds that are equal modulo
\* 2^32, lies in [0, 1) (its numerator over 2^32 is a 32-bit number) and is the mixing
\* of a 32-bit counter that starts at the seed and advances by 0x6d2b79f5 per call.
C20_Counter32 ==
    (call.op = "rng" /\ call.n > call.start) =>
        /\ call.valueA = call.valueB
        /\ call.valueA \in (0..(Half - 1)) \X (0..(Half - 1))
        /\ call.valueA = Mix(call.counter)

\* the orb's position
OrbAt(r) == <<r.state.orb.x, r.state.orb.y, r.state.orb.z>>
\* the place of the orb on a holder at position p
OnHolder(p) == <<p.x, p.y + HOLDER_OFFSET_Y, p.z>>

\* a step that respawns the orb: a countdown reaches 0, the holder of the active orb
\* crashes or leaves, or a tick finds a holder that is no player
Respawned ==
    \/ ~room.state.orbActive /\ room'.state.orbActive
    \/ /\ room.state.orbActive /\ Holder(room) # ""
       /\ \/ CrashStep(Holder(room))
          \/ ~MapHas(room'.state.players, Holder(room))
    \/ /\ room.state.orbActive /\ Holder(room) # ""
       /\ ~MapHas(room.state.players, Holder(room))
       /\ room'.state.serverTimeMs = clock' /\ room'.state.orbActive

\* C21: spawnSeq is one more after a step that respawns the orb (a countdown reaching 0,
\* a crash or a leave of the holder, a stale holder found by a tick) and unchanged after
\* every other step; a respawn puts the orb at a spawn point, unheld unless the pickup of
\* the same tick takes it.  A pickup and a steal leave spawnSeq and put the orb on the
\* taker, a deactivation (clearOrbState) leaves spawnSeq and the orb's position.
C21_SpawnSeqCountsRespawns ==
    /\ [](/\ clearOrbState(room).state.orb.spawnSeq = room.state.orb.spawnSeq
          /\ OrbAt(clearOrbState(room)) = OrbAt(room))
    /\ [][
           /\ IF Respawned
              THEN /\ room'.state.orb.spawnSeq = room.state.orb.spawnSeq + 1
                   /\ Holder(room') = "" =>
                         \E rnd \in OrbSpawns : OrbAt(room') = <<rnd.x, rnd.y, rnd.z>>
              ELSE room'.state.orb.spawnSeq = room.state.orb.spawnSeq
           /\ (room.state.orbActive /\ Holder(room') \notin {"", Holder(room)}) =>
                 /\ room'.state.orb.spawnSeq = room.state.orb.spawnSeq
                 /\ OrbAt(room') = OnHolder(MapGet(room'.state.players, Holder(room')))
           /\ (room.state.orbActive /\ ~room'.state.orbActive
                 /\ MapHas(room'.state.players, Holder(room))) =>
                 /\ room'.state.orb.spawnSeq = room.state.orb.spawnSeq
                 /\ OrbAt(room') = OrbAt(room)
       ]_vars

\* the orb was respawned three times (a countdown, a crash or leave of its holder twice),
\* was deactivated while held away from the spawn altitude, and is held again
C21_Witness ==
    /\ room.state.orb.spawnSeq = 3
    /\ Holder(room) # ""
    /\ Left # {}
    /\ \E s \in Keys : s # Holder(room) /\ Player(s).bestOrbScore > 0

\* the simulation tick took the room from its state to the next, with deltaTime
TickStep(deltaTime) ==
    /\ room'.state.serverTimeMs = clock'
    /\ \E rnd \in OrbSpawns : room' = onTick(room, deltaTime, clock', clock', clock', rnd)

\* C22: a tick that ends with the orb active changes the holder at most once, by a
\* pickup (the orb unheld after the lifecycle step) or else by a steal (the orb held and
\* the cooldown elapsed); the points of the tick, one per full 1000 ms of the accumulator
\* with the tick's deltaTime, go to the holder as it stands after that step, on top of 0
\* for a player who took or lost the orb in this tick; and the tick changes nothing that
\* another handler writes (the players present, their poses, the thermals).
C22_TickOrder ==
    [][\A deltaTime \in ScoreInputs.deltaTimes :
          (TickStep(deltaTime) /\ room'.state.orbActive) =>
              LET n == (room.scoreAccumulatorMs + deltaTime) \div ORB_SCORE_INTERVAL_MS
                  now == clock'
                  p == Holder(room)
                  q == Holder(room')
              IN /\ q # p =>
                       /\ q # ""
                       /\ room'.state.orb.lastTransferAtMs = now
                       /\ p # "" => now - room.state.orb.lastTransferAtMs
                                       >= ORB_STEAL_COOLDOWN_MS
                 /\ q = p => (room'.state.orb.lastTransferAtMs = room.state.orb.lastTransferAtMs
                                \/ ~room.state.orbActive)
                 /\ MapKeys(room'.state.players) = Keys
                 /\ \A s \in Keys :
                       LET old == Player(s)
                           new == MapGet(room'.state.players, s)
                           base == IF q # p /\ s \in {p, q} THEN 0 ELSE old.currentOrbScore
                           cur == base + (IF s = q THEN n ELSE 0)
                       IN new = [old EXCEPT !.currentOrbScore = cur,
                                            !.bestOrbScore = Max(old.bestOrbScore, cur)]
                 /\ room'.scoreAccumulatorMs =
                       (room.scoreAccumulatorMs + deltaTime) % ORB_SCORE_INTERVAL_MS
                 /\ room'.state.thermals = room.state.thermals
                 /\ room'.state.worldSeed = room.state.worldSeed
      ]_vars

\* a player took the orb in a tick of 500 ms that completed a second of the accumulator:
\* the run is one tick old and has its first point; the other player held the orb before
C22_Witness ==
    /\ Holder(room) # ""
    /\ hold = [ms |-> 500, points |-> 1]
    /\ \E s \in Keys : s # Holder(room) /\ Player(s).bestOrbScore > 0

\* C23: a tick that ends with the orb inactive (it found the orb inactive after its
\* lifecycle step) leaves the score accumulator at 0 and changes no player, no holder
\* and no orb position; and no step that ends with the orb inactive raises a score of
\* a player: a score rises only in a step that ends with the orb active.
C23_NoScoringWhileInactive ==
    [][/\ \A deltaTime \in ScoreInputs.deltaTimes :
             (TickStep(deltaTime) /\ ~room'.state.orbActive) =>
                 /\ room'.scoreAccumulatorMs = 0
                 /\ room'.state.players = room.state.players
                 /\ Holder(room') = Holder(room)
                 /\ OrbAt(room') = OrbAt(room)
       /\ \A s \in Keys :
             (~room'.state.orbActive /\ MapHas(room'.state.players, s)) =>
                 /\ MapGet(room'.state.players, s).currentOrbScore <= Player(s).currentOrbScore
                 /\ MapGet(room'.state.players, s).bestOrbScore <= Player(s).bestOrbScore
      ]_vars

\* a tick ran after the holder left one player behind: the orb is inactive, the last
\* tick is later than the respawn of that leave, and the player left has a best score
C23_Witness ==
    /\ ~room.state.orbActive
    /\ Size = 1
    /\ room.state.orb.spawnSeq >= 2
    /\ room.state.serverTimeMs > room.state.orb.lastTransferAtMs
    /\ room.scoreAccumulatorMs = 0
    /\ \E s \in Keys : Player(s).bestOrbScore > 0

\* C24: after a tick that ends with the orb active and held, the orb is at its holder's
\* position with y raised by 0.9, whether the holder kept the orb (and moved since the
\* last tick) or took it in this tick.
C24_OrbOnHolder ==
    [][\A deltaTime \in FollowInputs.deltaTimes :
          (TickStep(deltaTime) /\ room'.state.orbActive /\ Holder(room') # "") =>
              /\ MapHas(room'.state.players, Holder(room'))
              /\ OrbAt(room') = OnHolder(MapGet(room'.state.players, Holder(room')))
      ]_vars

\* the holder took the orb at the spawn point, moved with it, and a later tick put the
\* orb on the holder again
C24_Witness ==
    /\ room.state.orbActive
    /\ \E s \in Keys :
          /\ Holder(room) = s
          /\ Player(s).x # 0
          /\ OrbAt(room) = OnHolder(Player(s))
          /\ room.state.orb.lastTransferAtMs < room.state.serverTimeMs
          /\ Player(s).updatedAtMs > room.state.orb.lastTransferAtMs

\* The delays of a finished call are staggered in slots of a width: the thermal whose
\* sort key has rank r (equal keys in the order of the indices) has its delay within 35%
\* of the width of the center of slot r; every delay lies in [0, 6 s], strictly inside
\* (the clamp changed nothing); the delays are distinct and increase with the sort key.
Staggered(width) ==
    LET ts == call.thermals
        keys == call.keys
        delay(i) == ts[i].activationAt - call.batchNow
        Before(i, j) == \/ keys[i][1] < keys[j][1]
                        \/ keys[i][1] = keys[j][1] /\ keys[i][2] < keys[j][2]
                        \/ keys[i] = keys[j] /\ i < j
        rankOf(i) == Cardinality({j \in DOMAIN ts : Before(j, i)})
    IN \A i \in DOMAIN ts :
          /\ 20 * Abs(delay(i) - (rankOf(i) * width + (width \div 2))) <= 7 * width
          /\ delay(i) > THERMAL_ACTIVATION_DELAY_MIN_SECONDS
          /\ delay(i) < THERMAL_ACTIVATION_DELAY_MAX_SECONDS
          /\ \A j \in DOMAIN ts : Before(i, j) => delay(i) < delay(j)

C26_EventuallyActive ==
    /\ [][
           /\ (/\ room.orbCountdownEndsAtMs # Null
               /\ clock' >= room.orbCountdownEndsAtMs
               /\ MapSize(room'.state.players) >= ORB_MIN_PLAYERS
               /\ \/ MapKeys(room'.state.players) # Keys
                  \/ \E deltaTime \in LifeInputs.deltaTimes : TickStep(deltaTime)) =>
                  room'.state.orbActive
           /\ (room.state.orbActive /\ MapSize(room'.state.players) >= ORB_MIN_PLAYERS) =>
                  room'.state.orbActive
       ]_vars
    /\ (/\ Size >= ORB_MIN_PLAYERS /\ ~room.state.orbActive
        /\ room.orbCountdownEndsAtMs # Null
        /\ room.orbCountdownEndsAtMs <= LifeInputs.maxClock)
          ~> (room.state.orbActive \/ Size < ORB_MIN_PLAYERS)

\* a tick activated the orb for three players: the orb of the first spawn is unheld and
\* was respawned at the time of the last tick
C26_Witness ==
    /\ room.state.orbActive
    /\ Size = 3
    /\ Holder(room) = ""
    /\ room.state.orb.spawnSeq = 1
    /\ room.state.orb.lastTransferAtMs = room.state.serverTimeMs

\* C27: every player has 0 <= currentOrbScore <= bestOrbScore (a player joins with
\* both at 0); a pass of the scoring loop adds exactly 1 to the holder's current score
\* and nothing to any other player; and a step raises the current score of a player
\* only if that player is the holder after it, in a tick, by the number of passes of
\* the loop (the whole seconds of the accumulator with the tick's deltaTime).
C27_ScoreBounds ==
    /\ [](/\ \A s \in Keys :
                /\ 0 <= Player(s).currentOrbScore
                /\ Player(s).currentOrbScore <= Player(s).bestOrbScore
          /\ \A s \in Keys :
                MapGet(scorePoint(room.state).players, s).currentOrbScore =
                    Player(s).currentOrbScore + (IF s = Holder(room) THEN 1 ELSE 0))
    /\ [][\A s \in MapKeys(room'.state.players) :
             LET new == MapGet(room'.state.players, s)
             IN IF s \in Keys
                THEN new.currentOrbScore > Player(s).currentOrbScore =>
                        /\ Holder(room') = s
                        /\ room'.state.orbActive
                        /\ \E deltaTime \in ScoreInputs.deltaTimes :
                              /\ TickStep(deltaTime)
                              /\ new.currentOrbScore
                                    <= Player(s).currentOrbScore
                                          + ((room.scoreAccumulatorMs + deltaTime)
                                                \div ORB_SCORE_INTERVAL_MS)
                ELSE new.currentOrbScore = 0 /\ new.bestOrbScore = 0
         ]_vars

\* the holder has its best score of 3 points, the other player is back at 0 below an
\* earlier best score
C27_Witness ==
    \E s \in Keys : \E p \in Keys :
        /\ Holder(room) = s
        /\ Player(s).currentOrbScore = 3
        /\ Player(s).bestOrbScore = 3
        /\ Player(p).currentOrbScore = 0
        /\ Player(p).bestOrbScore > 0

\* C28: at every handler boundary a held orb is active; an active orb has at least 2
\* players, orbCountdownRemainingMs = 0 and no countdown deadline; and a countdown
\* deadline comes with an inactive, unheld orb and at least 2 players.
C28_LifecycleStates ==
    /\ Holder(room) # "" => room.state.orbActive
    /\ room.state.orbActive =>
          /\ Size >= ORB_MIN_PLAYERS
          /\ room.state.orbCountdownRemainingMs = 0
          /\ room.orbCountdownEndsAtMs = Null
    /\ room.orbCountdownEndsAtMs # Null =>
          /\ ~room.state.orbActive
          /\ Holder(room) = ""
          /\ Size >= ORB_MIN_PLAYERS

\* a second countdown runs: the orb was active before, a player left and another joined
C28_Witness ==
    /\ room.orbCountdownEndsAtMs # Null
    /\ room.state.orb.spawnSeq >= 1
    /\ Left # {}
    /\ room.state.orbCountdownRemainingMs > 0

\* C29: the deadline of a running countdown stays what it is in every step that leaves
\* at least 2 players and the orb inactive (further joins, leaves, ticks, messages); a
\* step that leaves fewer than 2 players clears it; and the join that brings the count
\* from 1 to 2 sets it 10000 ms after the clock reading of that join, whatever time an
\* earlier countdown had run.
C29_CountdownNotRestarted ==
    [][/\ (/\ room.orbCountdownEndsAtMs # Null
           /\ MapSize(room'.state.players) >= ORB_MIN_PLAYERS
           /\ ~room'.state.orbActive) =>
              room'.orbCountdownEndsAtMs = room.orbCountdownEndsAtMs
       /\ (/\ room.orbCountdownEndsAtMs # Null
           /\ MapSize(room'.state.players) < ORB_MIN_PLAYERS) =>
              /\ room'.orbCountdownEndsAtMs = Null
              /\ room'.state.orbCountdownRemainingMs = 0
              /\ ~room'.state.orbActive
       /\ (Size < ORB_MIN_PLAYERS /\ MapSize(room'.state.players) >= ORB_MIN_PLAYERS) =>
              /\ room'.orbCountdownEndsAtMs = clock' + ORB_START_COUNTDOWN_MS
              /\ room'.state.orbCountdownRemainingMs >= ORB_START_COUNTDOWN_MS
              /\ ~room'.state.orbActive
      ]_vars

\* a countdown that began 8 s after the creation of the room (the first join to 2
\* players, or the join after a leave that cancelled a countdown of 8 s) has run for 8 s
\* through a third join or a leave: 2 s remain and the orb has never been active
C29_Witness ==
    /\ room.orbCountdownEndsAtMs = StartMs + 8000 + ORB_START_COUNTDOWN_MS
    /\ clock = StartMs + 16000
    /\ room.state.orbCountdownRemainingMs = 2000
    /\ room.state.orb.spawnSeq = 0
    /\ Cardinality(Left) = 1
    /\ Size = 2

\* C30: the score accumulator is at least 0 and below 1000 at every handler boundary;
\* only a tick changes it: a tick that ends with the orb inactive sets it to 0, a tick
\* that ends with the orb active adds its deltaTime and takes off the whole seconds,
\* whatever happens to the holder in that tick (a pickup, a steal, a respawn); a crash,
\* a join, a leave, a pose and a reseed leave it.
C30_OneAccumulator ==
    /\ [](0 <= room.scoreAccumulatorMs /\ room.scoreAccumulatorMs < ORB_SCORE_INTERVAL_MS)
    /\ [][
           /\ room'.scoreAccumulatorMs # room.scoreAccumulatorMs =>
                 \E deltaTime \in ScoreInputs.deltaTimes : TickStep(deltaTime)
           /\ \A deltaTime \in ScoreInputs.deltaTimes :
                 TickStep(deltaTime) =>
                     room'.scoreAccumulatorMs =
                         IF room'.state.orbActive
                         THEN (room.scoreAccumulatorMs + deltaTime) % ORB_SCORE_INTERVAL_MS
                         ELSE 0
           /\ \A s \in Keys : CrashStep(s) => room'.scoreAccumulatorMs = room.scoreAccumulatorMs
       ]_vars

\* the holder has 2 points after holding the orb for 1500 ms: 500 ms of the accumulator
\* from before the run counted, the other player held the orb before
C30_Witness ==
    /\ Holder(room) # ""
    /\ hold = [ms |-> 1500, points |-> 2]
    /\ room.scoreAccumulatorMs = 0
    /\ \E s \in Keys : s # Holder(room) /\ Player(s).bestOrbScore > 0

====
